---- MODULE Spec2Model ----
(***************************************************************************)
(* Model of the starlark-rust evaluator core:                              *)
(*   - LocalSlots, the local-slot stack   (eval/runtime/slots.rs)          *)
(*   - BcInstrsWriter / BcInstrs          (eval/bc/instrs.rs)              *)
(*   - freeze-time optimisation of calls  (eval/fragment/call.rs)          *)
(*   - compilation of call expressions    (eval/fragment/call.rs)          *)
(*   - the Python binding's eval          (python/src/lib.rs)              *)
(*   - StarlarkHasher                     (collections/hasher.rs)          *)
(* Each subsystem has its own specification (SpecSlots, SpecBc,            *)
(* SpecFreeze, SpecCompile, SpecPy, SpecHash); the variables of the other  *)
(* subsystems stay at their initial values.  SpecSlotsOdd is LocalSlots    *)
(* with reservations utilised and released in any order.                   *)
(***************************************************************************)
EXTENDS Integers, Sequences, FiniteSets, TLC

VARIABLES
    slots,      \* LocalSlots::slots : Vec<Cell<Option<Value>>>; 0 is None, v > 0 is Some(v)
    base,       \* LocalSlots::base  : LocalSlotBase
    handles,    \* the LocalSlotBase values handed out so far (reserve / utilise results)
    calls,      \* the caller's stack of activations that follow the call protocol
    lifo,       \* TRUE while every call so far was a step of the call protocol
    slast       \* the last LocalSlots operation and what it returned

VARIABLES
    winstrs,    \* BcInstrsWriter::instrs : Vec<usize>, one record per word
    wphase,     \* "writing", "finished" (a BcInstrs exists), "dropped", "panicked"
    bc,         \* the BcInstrs value: Either::Left (heap) or Either::Right (static)
    drops,      \* per instruction written (by start address): runs of its drop routine
    staticDrops,\* runs of a drop routine on the static END_OF_BC
    handle,     \* what the last write returned: (instr_start, pointer to the arg)
    patches,    \* the PatchAddr values the caller holds
    blast       \* the last writer operation and what it returned

slotVars == <<slots, base, handles, calls, lifo, slast>>

VARIABLES
    ir,         \* a Spanned<CallCompiled> given to optimize_on_freeze
    once,       \* the call inside optimize_on_freeze(ir)
    twice,      \* the call inside optimize_on_freeze applied to that result
    fpc         \* "in", "once", "twice": how often the optimiser ran

bcVars == <<winstrs, wphase, bc, drops, staticDrops, handle, patches, blast>>

frVars == <<ir, once, twice, fpc>>

VARIABLES
    cst,        \* the call expression given to Compiler::expr_call (callee, arguments, span)
    cout,       \* the ExprCompiledValue that expr_call returned
    crun,       \* results of running the compiled and the unspecialised form on an argument
    cpc         \* "idle", "in", "compiled", "ran"

cmVars == <<cst, cout, crun, cpc>>

VARIABLES
    pysrc,      \* the content given to eval: how parsing and evaluation of it turn out
    pyres,      \* what eval returned: Ok(Option<PyObject>) or Err(PyErr)
    pylog,      \* the stages eval has entered, in order
    ppc         \* "idle", "in", "parsed", "evaluated", "done"

pyVars == <<pysrc, pyres, pylog, ppc>>

VARIABLES
    hashers,    \* two StarlarkHasher instances: the DefaultHasher inside, the bytes fed
    hlast       \* the last finish / finish_small and what it returned

hashVars == <<hashers, hlast>>

vars == <<slotVars, bcVars, frVars, cmVars, pyVars, hashVars>>

(***************************************************************************)
(* Bounds of the model.                                                    *)
(***************************************************************************)
MaxLen == 3
MaxReserve == 1
MaxVal == 1
MaxDepth == 3
MaxWords == 5
MaxPatches == 2
MaxSpanTable == 1
MaxPos == 2
MaxStr == 3
MaxArgs == 2
MaxItems == 2
MaxBytes == 3

Values == 1..MaxVal

None == 0

NoBase == -1

(***************************************************************************)
(* LocalSlots: the operations, as functions of the object's state          *)
(* s = [slots, base].  Each returns the new state, and "ret" where the     *)
(* method returns a value.                                                 *)
(***************************************************************************)
LocalSlots_new == [slots |-> <<>>, base |-> 0]

\* A resize that fills the new cells with a copy of the last cell.
resize_grow_last(v, n) == v \o [i \in 1..n |-> IF v = <<>> THEN None ELSE v[Len(v)]]

\* Vec::resize(len + n, Cell::new(None)) for n >= 0: n more None cells.
resize_grow(v, n) == v \o [i \in 1..n |-> None]

\* Vec::truncate(k): keeps the first k cells; no effect when k >= len.
truncate(v, k) == IF k >= Len(v) THEN v ELSE SubSeq(v, 1, k)

reserve(s, len) ==
    [slots |-> resize_grow(s.slots, len), base |-> s.base, ret |-> Len(s.slots)]

utilise(s, b) ==
    [slots |-> s.slots, base |-> b, ret |-> s.base]

\* A release_after that truncates one cell too far.
release_after_short(s, b) ==
    [slots |-> truncate(s.slots, IF b > 0 THEN b - 1 ELSE 0), base |-> s.base]

release_after(s, b) ==
    [slots |-> truncate(s.slots, b), base |-> s.base]

\* A release that moves the register index back and keeps the callee's cells.
release_keep(s, new_base) ==
    [slots |-> s.slots, base |-> new_base]

\* A release that moves the register index first and truncates to it.
release_swapped(s, new_base) ==
    [slots |-> truncate(s.slots, new_base), base |-> new_base]

release(s, new_base) ==
    [slots |-> release_after(s, s.base).slots, base |-> new_base]

\* self.slots[i] of a Vec: in bounds exactly when i < len (0-based).
InBounds(s, i) == i < Len(s.slots)

\* get_slot: the cell at base + slot; "oob" is the index panic.
get_slot(s, id) ==
    IF InBounds(s, s.base + id)
    THEN [ok |-> TRUE, ret |-> s.slots[s.base + id + 1]]
    ELSE [ok |-> FALSE, ret |-> None]

\* set_slot: stores Some(value) in the cell at base + slot, or panics.
set_slot(s, id, value) ==
    IF InBounds(s, s.base + id)
    THEN [ok |-> TRUE, slots |-> [s.slots EXCEPT ![s.base + id + 1] = value],
          base |-> s.base]
    ELSE [ok |-> FALSE, slots |-> s.slots, base |-> s.base]

\* get_slots_at: the slice slots[b..]; panics when b > len.
get_slots_at(s, b) ==
    IF b <= Len(s.slots)
    THEN [ok |-> TRUE, ret |-> SubSeq(s.slots, b + 1, Len(s.slots))]
    ELSE [ok |-> FALSE, ret |-> <<>>]

Self == [slots |-> slots, base |-> base]

Last(op, ok, ret) == [op |-> op, ok |-> ok, ret |-> ret, wrote |-> FALSE]

(***************************************************************************)
(* The call protocol of the LocalSlots doc comment: reserve, fill the      *)
(* parameters, utilise, execute, release.  calls is the stack of           *)
(* activations in flight; an activation is "reserved" while prev = NoBase  *)
(* and running once utilise returned prev.  Each records the caller's      *)
(* state at its reserve.                                                   *)
(***************************************************************************)
Top == calls[Len(calls)]

Pop == SubSeq(calls, 1, Len(calls) - 1)

Reserved(f) == f.prev = NoBase

Running(f) == f.prev # NoBase

\* 1. reserve some slots at the end, which will be the locals for the callee
PReserve(n) ==
    /\ lifo
    /\ Len(calls) < MaxDepth
    /\ Len(slots) + n <= MaxLen
    /\ LET r == reserve(Self, n) IN
        /\ slots' = r.slots
        /\ base' = r.base
        /\ handles' = handles \cup {r.ret}
        /\ calls' = Append(calls, [resv |-> r.ret, n |-> n, prev |-> NoBase,
                                   savedBase |-> base, savedSlots |-> slots,
                                   wrote |-> FALSE])
        \* wrote of a reserve: the cells it returns follow the release of an
        \* activation that had written them.
        /\ slast' = [Last("reserve", TRUE, r.ret) EXCEPT
                        !.wrote = (slast.op = "release" /\ slast.wrote /\ n > 0)]
    /\ UNCHANGED lifo

\* 2. fill up these slots with parameters: get_slots_at(base)[i].set(Some(v))
PFill(i, v) ==
    /\ lifo
    /\ calls # <<>>
    /\ Reserved(Top)
    /\ i < Top.n
    /\ get_slots_at(Self, Top.resv).ok
    /\ slots' = [slots EXCEPT ![Top.resv + i + 1] = v]
    /\ calls' = [calls EXCEPT ![Len(calls)].wrote = TRUE]
    /\ slast' = Last("get_slots_at", TRUE, Top.resv)
    /\ UNCHANGED <<base, handles, lifo>>

\* 3. utilise these slots by moving the register index to these slots
PUtilise ==
    /\ lifo
    /\ calls # <<>>
    /\ Reserved(Top)
    /\ LET r == utilise(Self, Top.resv) IN
        /\ slots' = r.slots
        /\ base' = r.base
        /\ handles' = handles \cup {r.ret}
        /\ calls' = [calls EXCEPT ![Len(calls)].prev = r.ret]
        /\ slast' = Last("utilise", TRUE, r.ret)
    /\ UNCHANGED lifo

\* 4. execute the function: it assigns its locals, slot ids below its n
PSetSlot(id, v) ==
    /\ lifo
    /\ calls # <<>>
    /\ Running(Top)
    /\ id < Top.n
    /\ LET r == set_slot(Self, id, v) IN
        /\ slots' = r.slots
        /\ base' = r.base
        /\ slast' = Last("set_slot", r.ok, id)
    /\ calls' = [calls EXCEPT ![Len(calls)].wrote = TRUE]
    /\ UNCHANGED <<handles, lifo>>

\* 5. release these slots by moving the register index back
PRelease ==
    /\ lifo
    /\ calls # <<>>
    /\ Running(Top)
    /\ LET r == release(Self, Top.prev) IN
        /\ slots' = r.slots
        /\ base' = r.base
    /\ calls' = Pop
    /\ slast' = [Last("release", TRUE, Top.resv) EXCEPT !.wrote = Top.wrote]
    /\ UNCHANGED <<handles, lifo>>

\* The final reservation is given up before it was utilised.
PReleaseAfter ==
    /\ lifo
    /\ calls # <<>>
    /\ Reserved(Top)
    /\ LET r == release_after(Self, Top.resv) IN
        /\ slots' = r.slots
        /\ base' = r.base
    /\ calls' = Pop
    /\ slast' = Last("release_after", TRUE, Top.resv)
    /\ UNCHANGED <<handles, lifo>>

(***************************************************************************)
(* Calls outside the protocol: any method, with any LocalSlotBase the      *)
(* caller holds (the field of LocalSlotBase is private, so the only bases  *)
(* are the ones reserve and utilise returned).                             *)
(***************************************************************************)
FReserve(n) ==
    /\ Len(slots) + n <= MaxLen
    /\ LET r == reserve(Self, n) IN
        /\ slots' = r.slots
        /\ base' = r.base
        /\ handles' = handles \cup {r.ret}
        /\ slast' = Last("reserve", TRUE, r.ret)
    /\ lifo' = FALSE
    /\ calls' = <<>>

FUtilise(h) ==
    /\ LET r == utilise(Self, h) IN
        /\ slots' = r.slots
        /\ base' = r.base
        /\ handles' = handles \cup {r.ret}
        /\ slast' = Last("utilise", TRUE, r.ret)
    /\ lifo' = FALSE
    /\ calls' = <<>>

FReleaseAfter(h) ==
    /\ LET r == release_after(Self, h) IN
        /\ slots' = r.slots
        /\ base' = r.base
    /\ slast' = Last("release_after", TRUE, h)
    /\ lifo' = FALSE
    /\ calls' = <<>>
    /\ UNCHANGED handles

FRelease(h) ==
    /\ LET r == release(Self, h) IN
        /\ slots' = r.slots
        /\ base' = r.base
    /\ slast' = Last("release", TRUE, h)
    /\ lifo' = FALSE
    /\ calls' = <<>>
    /\ UNCHANGED handles

FSetSlot(id, v) ==
    /\ LET r == set_slot(Self, id, v) IN
        /\ slots' = r.slots
        /\ base' = r.base
        /\ slast' = Last("set_slot", r.ok, id)
    /\ lifo' = FALSE
    /\ calls' = <<>>
    /\ UNCHANGED handles

(***************************************************************************)
(* Reservations used in an odd manner (the comment of release_after): any  *)
(* outstanding reservation may be utilised or given up, the final one or   *)
(* not.  calls keeps the outstanding reservations, those utilised in the   *)
(* order of their utilise; a reservation whose cells were truncated stays  *)
(* in it, its base now stale.  lifo turns FALSE at the first call that     *)
(* is not on the final reservation.                                        *)
(***************************************************************************)
Remove(seq, k) == SubSeq(seq, 1, k - 1) \o SubSeq(seq, k + 1, Len(seq))

\* An outstanding reservation [resv, n, prev]; what the call protocol
\* records of the caller is not kept here.
Outstanding(resv, n, prev) ==
    [resv |-> resv, n |-> n, prev |-> prev, savedBase |-> 0, savedSlots |-> <<>>,
     wrote |-> FALSE]

\* The activation that is executing: the one utilised last.
CurIdx == CHOOSE k \in 1..Len(calls) :
            Running(calls[k]) /\ \A j \in (k + 1)..Len(calls) : Reserved(calls[j])

HasCur == \E k \in 1..Len(calls) : Running(calls[k])

\* The cell with index i is one of the cells reserved for f.
InWindow(f, i) == f.resv <= i /\ i < f.resv + f.n

MReserve(n) ==
    /\ Len(calls) < MaxDepth
    /\ Len(slots) + n <= MaxLen
    /\ LET r == reserve(Self, n) IN
        /\ slots' = r.slots
        /\ base' = r.base
        /\ handles' = handles \cup {r.ret}
        /\ calls' = Append(calls, Outstanding(r.ret, n, NoBase))
        /\ slast' = Last("reserve", TRUE, r.ret)
    /\ UNCHANGED lifo

\* utilise of an outstanding reservation; it moves behind the ones utilised before.
MUtilise(k) ==
    /\ k \in 1..Len(calls)
    /\ Reserved(calls[k])
    /\ LET r == utilise(Self, calls[k].resv) IN
        /\ slots' = r.slots
        /\ base' = r.base
        /\ handles' = handles \cup {r.ret}
        /\ calls' = Append(Remove(calls, k), [calls[k] EXCEPT !.prev = r.ret])
        /\ slast' = Last("utilise", TRUE, r.ret)
    /\ lifo' = (lifo /\ k = Len(calls))

\* release_after of an outstanding reservation.
MReleaseAfter(k) ==
    /\ k \in 1..Len(calls)
    /\ Reserved(calls[k])
    /\ LET r == release_after(Self, calls[k].resv) IN
        /\ slots' = r.slots
        /\ base' = r.base
    /\ calls' = Remove(calls, k)
    /\ slast' = Last("release_after", TRUE, calls[k].resv)
    /\ lifo' = (lifo /\ k = Len(calls))
    /\ UNCHANGED handles

\* release of the executing activation, with the base its utilise returned.
MRelease ==
    /\ HasCur
    /\ LET r == release(Self, calls[CurIdx].prev) IN
        /\ slots' = r.slots
        /\ base' = r.base
    /\ calls' = Remove(calls, CurIdx)
    /\ slast' = Last("release", TRUE, calls[CurIdx].resv)
    /\ lifo' = (lifo /\ CurIdx = Len(calls))
    /\ UNCHANGED handles

\* The executing activation assigns a local.
MSetSlot(id, v) ==
    /\ HasCur
    /\ LET r == set_slot(Self, id, v) IN
        /\ slots' = r.slots
        /\ base' = r.base
        /\ slast' = Last("set_slot", r.ok, id)
    /\ UNCHANGED <<handles, calls, lifo>>

\* The executing activation reads a local.
MGetSlot(id) ==
    /\ HasCur
    /\ LET r == get_slot(Self, id) IN
        /\ slast' = Last("get_slot", r.ok, id)
    /\ UNCHANGED <<slots, base, handles, calls, lifo>>

\* The caller reaches for parameter i of reservation k: get_slots_at(base)[i];
\* the slice or the index into it panics when out of bounds.
MSlotsAt(k, i) ==
    /\ k \in 1..Len(calls)
    /\ Reserved(calls[k])
    /\ LET r == get_slots_at(Self, calls[k].resv) IN
        /\ slast' = Last("get_slots_at", r.ok /\ i < Len(r.ret), calls[k].resv)
    /\ UNCHANGED <<slots, base, handles, calls, lifo>>

OddNext ==
    \/ \E n \in 0..MaxReserve : MReserve(n) /\ UNCHANGED <<bcVars, frVars, cmVars, pyVars, hashVars>>
    \/ \E k \in 1..MaxDepth : MUtilise(k) /\ UNCHANGED <<bcVars, frVars, cmVars, pyVars, hashVars>>
    \/ \E k \in 1..MaxDepth : MReleaseAfter(k) /\ UNCHANGED <<bcVars, frVars, cmVars, pyVars, hashVars>>
    \/ MRelease /\ UNCHANGED <<bcVars, frVars, cmVars, pyVars, hashVars>>
    \/ \E id \in 0..MaxReserve, v \in Values : MSetSlot(id, v) /\ UNCHANGED <<bcVars, frVars, cmVars, pyVars, hashVars>>
    \/ \E id \in 0..MaxReserve : MGetSlot(id) /\ UNCHANGED <<bcVars, frVars, cmVars, pyVars, hashVars>>
    \/ \E k \in 1..MaxDepth, i \in 0..MaxReserve : MSlotsAt(k, i) /\ UNCHANGED <<bcVars, frVars, cmVars, pyVars, hashVars>>

SlotsInit ==
    /\ slots = LocalSlots_new.slots
    /\ base = LocalSlots_new.base
    /\ handles = {}
    /\ calls = <<>>
    /\ lifo = TRUE
    /\ slast = Last("new", TRUE, NoBase)

SlotsNext ==
    \/ \E n \in 0..MaxReserve : PReserve(n) /\ UNCHANGED <<bcVars, frVars, cmVars, pyVars, hashVars>>
    \/ \E i \in 0..(MaxReserve - 1), v \in Values : PFill(i, v) /\ UNCHANGED <<bcVars, frVars, cmVars, pyVars, hashVars>>
    \/ PUtilise /\ UNCHANGED <<bcVars, frVars, cmVars, pyVars, hashVars>>
    \/ \E id \in 0..(MaxReserve - 1), v \in Values : PSetSlot(id, v) /\ UNCHANGED <<bcVars, frVars, cmVars, pyVars, hashVars>>
    \/ PRelease /\ UNCHANGED <<bcVars, frVars, cmVars, pyVars, hashVars>>
    \/ PReleaseAfter /\ UNCHANGED <<bcVars, frVars, cmVars, pyVars, hashVars>>
    \/ \E n \in 0..MaxReserve : FReserve(n) /\ UNCHANGED <<bcVars, frVars, cmVars, pyVars, hashVars>>
    \/ \E h \in handles : FUtilise(h) /\ UNCHANGED <<bcVars, frVars, cmVars, pyVars, hashVars>>
    \/ \E h \in handles : FReleaseAfter(h) /\ UNCHANGED <<bcVars, frVars, cmVars, pyVars, hashVars>>
    \/ \E h \in handles : FRelease(h) /\ UNCHANGED <<bcVars, frVars, cmVars, pyVars, hashVars>>
    \/ \E id \in 0..MaxReserve, v \in Values : FSetSlot(id, v) /\ UNCHANGED <<bcVars, frVars, cmVars, pyVars, hashVars>>


(***************************************************************************)
(* The instruction buffer.  A word of the buffer is a record: k = "op" for *)
(* the header word of an instruction (op is its opcode), k = "arg" for a   *)
(* payload word; v is the number the word holds.  Addresses are in bytes.  *)
(***************************************************************************)
WordSize == 8

BC_INSTR_ALIGN == 8

\* BcAddrOffset::FORWARD, the target of a jump that is not patched yet: a
\* reserved value that is no offset inside a buffer.
FORWARD == 2147483647

OpWord(op) == [k |-> "op", op |-> op, v |-> 0]

ArgWord(v) == [k |-> "arg", op |-> "", v |-> v]

\* The instructions a caller writes; EndOfBc is written by finish.
WrittenOps == {"Return", "Const", "Br"}

\* The arguments of an instruction: (), a FrozenValue, a BcAddrOffset.
ArgsOf(op) ==
    CASE op = "Return" -> {0}
      [] op = "Const"  -> Values
      [] op = "Br"     -> {FORWARD, WordSize}

\* mem::size_of::<BcInstrRepr<I>>() in bytes.
size_of_repr(op) ==
    CASE op = "Return"  -> WordSize
      [] op = "Const"   -> 2 * WordSize
      [] op = "Br"      -> 2 * WordSize
      [] op = "EndOfBc" -> 5 * WordSize
      [] OTHER          -> WordSize

\* BcInstrRepr::<I>::new(arg): the header word, then the payload words.
\* The payload of EndOfBc is (BcAddr, Vec): arg is <<addr, span table>>.
BcInstrRepr_new(op, arg) ==
    CASE op = "Return"  -> <<OpWord(op)>>
      [] op = "Const"   -> <<OpWord(op), ArgWord(arg)>>
      [] op = "Br"      -> <<OpWord(op), ArgWord(arg)>>
      [] op = "EndOfBc" -> <<OpWord(op), ArgWord(arg[1]), ArgWord(arg[2]),
                             ArgWord(0), ArgWord(0)>>

\* Byte offset of the arg field inside the representation.
ArgOffset == WordSize

instrs_len_bytes(instrs) == Len(instrs) * WordSize

ip(instrs) == instrs_len_bytes(instrs)

\* The word at a byte address.
WordAt(instrs, addr) == instrs[(addr \div WordSize) + 1]

(***************************************************************************)
(* drop_instrs and opcodes: the walk from the start of the slice by        *)
(* opcode size.  The walk yields the start addresses (resp. opcodes) it    *)
(* visits; Overrun marks the failed assert!(ptr < end).                    *)
(***************************************************************************)
Overrun == -1

RECURSIVE walk(_, _)
walk(instrs, ptr) ==
    IF ptr = instrs_len_bytes(instrs) THEN <<>>
    ELSE IF ptr > instrs_len_bytes(instrs) \/ WordAt(instrs, ptr).k # "op"
         THEN <<Overrun>>
         ELSE <<ptr>> \o walk(instrs, ptr + size_of_repr(WordAt(instrs, ptr).op))

drop_instrs(instrs) == walk(instrs, 0)

opcodes(instrs) ==
    LET w == walk(instrs, 0) IN
    [i \in 1..Len(w) |-> IF w[i] = Overrun THEN "Overrun" ELSE WordAt(instrs, w[i]).op]

\* The drop counts after the drop routine ran on the instructions at addrs.
Dropped(d, addrs) ==
    [a \in DOMAIN d |->
        d[a] + Cardinality({i \in 1..Len(addrs) : addrs[i] = a})]

\* static END_OF_BC = BcInstrRepr::new((BcAddr(0), Vec::new()))
empty_instrs == BcInstrRepr_new("EndOfBc", <<0, 0>>)

BcInstrs_default == [kind |-> "Right", instrs |-> empty_instrs]

NoBcInstrs == [kind |-> "none", instrs |-> <<>>]

\* Drop for BcInstrs: the addresses whose drop routine runs.
BcInstrs_drop(b) ==
    IF b.kind = "Left" THEN drop_instrs(b.instrs) ELSE <<>>

\* Drop for BcInstrsWriter.
BcInstrsWriter_drop(instrs) == drop_instrs(instrs)

(***************************************************************************)
(* BcInstrsWriter: write, addr_to_patch, patch_addr, finish as functions   *)
(* of the writer's instrs.  ok = FALSE is a failed assertion (a panic).    *)
(***************************************************************************)
BcInstrsWriter_new == <<>>

\* A write that grows the buffer by one word whatever the instruction.
write_one_word(instrs, op, arg) ==
    [ok |-> size_of_repr(op) % WordSize = 0,
     instrs |-> instrs \o SubSeq(BcInstrRepr_new(op, arg), 1, 1),
     ret |-> ip(instrs),
     ptr |-> instrs_len_bytes(instrs) + ArgOffset]

\* A write whose offset is one word short: it overwrites the last word.
write_over_tail(instrs, op, arg) ==
    [ok |-> size_of_repr(op) % WordSize = 0,
     instrs |-> SubSeq(instrs, 1, Len(instrs) - 1)
                    \o SubSeq(BcInstrRepr_new(op, arg), 1, size_of_repr(op) \div WordSize)
                    \o SubSeq(<<ArgWord(0)>>, 1, IF Len(instrs) > 0 THEN 1 ELSE 0),
     ret |-> ip(instrs),
     ptr |-> instrs_len_bytes(instrs) + ArgOffset]

write(instrs, op, arg) ==
    [ok |-> size_of_repr(op) % WordSize = 0,
     instrs |-> instrs \o SubSeq(BcInstrRepr_new(op, arg), 1,
                                 size_of_repr(op) \div WordSize),
     ret |-> ip(instrs),
     ptr |-> instrs_len_bytes(instrs) + ArgOffset]

addr_to_patch(instrs, instr_start, addr) ==
    [ok |-> /\ addr < instrs_len_bytes(instrs)
            /\ WordAt(instrs, addr).v = FORWARD,
     patch |-> [instr_start |-> instr_start, arg |-> addr]]

\* BcAddr::offset_from: the byte delta self - start.
offset_from(a, start) == a - start

\* A patch_addr that takes the delta from the arg field.
patch_addr_from_arg(instrs, addr) ==
    LET delta == offset_from(ip(instrs), addr.arg) IN
    [ok |-> WordAt(instrs, addr.arg).v = FORWARD /\ delta % BC_INSTR_ALIGN = 0,
     instrs |-> [instrs EXCEPT ![(addr.arg \div WordSize) + 1].v = delta]]

\* A patch_addr without the assertion on the sentinel.
patch_addr_unchecked(instrs, addr) ==
    LET delta == offset_from(ip(instrs), addr.instr_start) IN
    [ok |-> delta % BC_INSTR_ALIGN = 0,
     instrs |-> [instrs EXCEPT ![(addr.arg \div WordSize) + 1].v = delta]]

patch_addr(instrs, addr) ==
    LET delta == offset_from(ip(instrs), addr.instr_start) IN
    [ok |-> WordAt(instrs, addr.arg).v = FORWARD /\ delta % BC_INSTR_ALIGN = 0,
     instrs |-> [instrs EXCEPT ![(addr.arg \div WordSize) + 1].v = delta]]

HasForward(instrs) ==
    \E i \in 1..Len(instrs) : instrs[i].k = "arg" /\ instrs[i].v = FORWARD

\* A finish that leaves the words in the writer as well as in the BcInstrs.
finish_aliased(instrs, spans) ==
    LET w == write(instrs, "EndOfBc", <<ip(instrs), spans>>) IN
    [ok |-> w.ok /\ WordSize % BC_INSTR_ALIGN = 0,
     bc |-> [kind |-> "Left", instrs |-> w.instrs],
     self |-> w.instrs]

\* A finish that does not append EndOfBc.
finish_no_end(instrs, spans) ==
    [ok |-> WordSize % BC_INSTR_ALIGN = 0,
     bc |-> [kind |-> "Left", instrs |-> instrs],
     self |-> <<>>]

\* A finish that asserts every forward jump was patched.
finish_checked(instrs, spans) ==
    LET w == write(instrs, "EndOfBc", <<ip(instrs), spans>>) IN
    [ok |-> w.ok /\ WordSize % BC_INSTR_ALIGN = 0 /\ ~HasForward(instrs),
     bc |-> [kind |-> "Left", instrs |-> w.instrs],
     self |-> <<>>]

\* A finish that stores the start of the buffer in EndOfBc.
finish_from_start(instrs, spans) ==
    LET w == write(instrs, "EndOfBc", <<0, spans>>) IN
    [ok |-> w.ok /\ WordSize % BC_INSTR_ALIGN = 0,
     bc |-> [kind |-> "Left", instrs |-> w.instrs],
     self |-> <<>>]

\* finish: writes EndOfBc, takes the words out of self (which is then
\* dropped holding an empty Vec) and boxes them.
finish(instrs, spans) ==
    LET w == write(instrs, "EndOfBc", <<ip(instrs), spans>>) IN
    [ok |-> w.ok /\ WordSize % BC_INSTR_ALIGN = 0,
     bc |-> [kind |-> "Left", instrs |-> w.instrs],
     self |-> <<>>]

(***************************************************************************)
(* Display for BcInstrs.  The text is a string; ok = FALSE is the failed   *)
(* assert!(ptr < self.end_ptr()).                                          *)
(***************************************************************************)
\* Display of a FrozenValue: the value 1 stands for FrozenValue::new_bool(true).
FrozenValue_fmt(v) == IF v = 1 THEN "True" ELSE ToString(v)

\* BcOpcode::fmt_append_arg: a space and the argument, nothing for ().
fmt_append_arg(instrs, ptr, op) ==
    CASE op = "Const" -> " " \o FrozenValue_fmt(WordAt(instrs, ptr + ArgOffset).v)
      [] op = "Br"    -> " " \o ToString(WordAt(instrs, ptr + ArgOffset).v)
      [] OTHER        -> ""

\* One instruction printed by its position in the walk, not by its address.
fmt_instr_by_index(instrs, ptr) ==
    LET opcode == WordAt(instrs, ptr).op IN
    ToString(ptr \div WordSize) \o ": " \o opcode \o fmt_append_arg(instrs, ptr, opcode) \o "; "

\* write!(f, "{}: {:?}", ip.0, opcode); opcode.fmt_append_arg(ptr, f); write!(f, "; ")
fmt_instr(instrs, ptr) ==
    LET ip_ == offset_from(ptr, 0)
        opcode == WordAt(instrs, ptr).op IN
    ToString(ip_) \o ": " \o opcode \o fmt_append_arg(instrs, ptr, opcode) \o "; "

\* The loop of fmt from ptr on, and the closing write!(f, "{}: END", ..).
RECURSIVE fmt_loop(_, _)
fmt_loop(instrs, ptr) ==
    IF ~(ptr < instrs_len_bytes(instrs)) THEN [ok |-> FALSE, s |-> ""]
    ELSE IF WordAt(instrs, ptr).op = "EndOfBc"
         THEN [ok |-> TRUE, s |-> ToString(offset_from(ptr, 0)) \o ": END"]
         ELSE LET r == fmt_loop(instrs, ptr + size_of_repr(WordAt(instrs, ptr).op)) IN
              [ok |-> r.ok, s |-> fmt_instr(instrs, ptr) \o r.s]

BcInstrs_fmt(b) == fmt_loop(b.instrs, 0)

NoHandle == [instr_start |-> -1, ptr |-> -1, op |-> ""]

BLast(op, ok, ret, i, a) == [op |-> op, ok |-> ok, ret |-> ret, i |-> i, a |-> a]

Panic(op, ret, i, a) ==
    /\ wphase' = "panicked"
    /\ blast' = BLast(op, FALSE, ret, i, a)
    /\ UNCHANGED <<winstrs, bc, drops, staticDrops, handle, patches>>

BcWrite(op, arg) ==
    /\ wphase = "writing"
    /\ Len(winstrs) + (size_of_repr(op) \div WordSize) <= MaxWords
    /\ LET w == write(winstrs, op, arg) IN
        IF w.ok
        THEN /\ winstrs' = w.instrs
             /\ drops' = [a \in DOMAIN drops \cup {w.ret} |->
                            IF a \in DOMAIN drops THEN drops[a] ELSE 0]
             /\ handle' = [instr_start |-> w.ret, ptr |-> w.ptr, op |-> op]
             /\ blast' = BLast("write", TRUE, w.ret, op, arg)
             /\ UNCHANGED <<wphase, bc, staticDrops, patches>>
        ELSE Panic("write", w.ret, op, arg)

\* addr_to_patch on what the last write returned, for a jump instruction.
BcAddrToPatch ==
    /\ wphase = "writing"
    /\ handle.op = "Br"
    /\ Len(patches) < MaxPatches
    /\ LET r == addr_to_patch(winstrs, handle.instr_start, handle.ptr) IN
        IF r.ok
        THEN /\ patches' = Append(patches, r.patch)
             /\ blast' = BLast("addr_to_patch", TRUE, r.patch.arg, "", r.patch.instr_start)
             /\ UNCHANGED <<winstrs, wphase, bc, drops, staticDrops, handle>>
        ELSE Panic("addr_to_patch", handle.ptr, "", handle.instr_start)

\* patch_addr consumes the i-th PatchAddr the caller holds.
BcPatchAddr(i) ==
    /\ wphase = "writing"
    /\ i \in 1..Len(patches)
    /\ LET r == patch_addr(winstrs, patches[i]) IN
        IF r.ok
        THEN /\ winstrs' = r.instrs
             /\ patches' = SubSeq(patches, 1, i - 1) \o SubSeq(patches, i + 1, Len(patches))
             /\ blast' = BLast("patch_addr", TRUE, patches[i].arg, "", patches[i].instr_start)
             /\ UNCHANGED <<wphase, bc, drops, staticDrops, handle>>
        ELSE Panic("patch_addr", patches[i].arg, "", patches[i].instr_start)

BcFinish(spans) ==
    /\ wphase = "writing"
    /\ LET f == finish(winstrs, spans) IN
        IF f.ok
        THEN /\ bc' = f.bc
             /\ winstrs' = f.self
             /\ drops' = Dropped([a \in DOMAIN drops \cup {ip(winstrs)} |->
                                    IF a \in DOMAIN drops THEN drops[a] ELSE 0],
                                 BcInstrsWriter_drop(f.self))
             /\ wphase' = "finished"
             /\ handle' = NoHandle
             /\ patches' = <<>>
             /\ blast' = BLast("finish", TRUE, ip(winstrs), "EndOfBc", spans)
             /\ UNCHANGED staticDrops
        ELSE Panic("finish", ip(winstrs), "EndOfBc", spans)

\* The writer goes out of scope without finish.
BcDropWriter ==
    /\ wphase = "writing"
    /\ drops' = Dropped(drops, BcInstrsWriter_drop(winstrs))
    /\ wphase' = "dropped"
    /\ handle' = NoHandle
    /\ patches' = <<>>
    /\ blast' = BLast("drop_writer", TRUE, 0, "", 0)
    /\ UNCHANGED <<winstrs, bc, staticDrops>>

\* The BcInstrs goes out of scope.
BcDropInstrs ==
    /\ wphase = "finished"
    /\ LET d == BcInstrs_drop(bc) IN
        /\ drops' = IF bc.kind = "Left" THEN Dropped(drops, d) ELSE drops
        /\ staticDrops' = IF bc.kind = "Right" THEN staticDrops + Len(d) ELSE staticDrops
    /\ wphase' = "dropped"
    /\ blast' = BLast("drop_instrs", TRUE, 0, "", 0)
    /\ UNCHANGED <<winstrs, bc, handle, patches>>

NoDrops == [a \in {} |-> 0]

\* BcInstrsWriter::new()
WriterNew ==
    /\ winstrs = BcInstrsWriter_new
    /\ wphase = "writing"
    /\ bc = NoBcInstrs
    /\ drops = NoDrops
    /\ staticDrops = 0
    /\ handle = NoHandle
    /\ patches = <<>>
    /\ blast = BLast("new", TRUE, 0, "", 0)

\* BcInstrs::default()
InstrsDefault ==
    /\ winstrs = <<>>
    /\ wphase = "finished"
    /\ bc = BcInstrs_default
    /\ drops = NoDrops
    /\ staticDrops = 0
    /\ handle = NoHandle
    /\ patches = <<>>
    /\ blast = BLast("default", TRUE, 0, "", 0)


BcNext ==
    \/ \E op \in WrittenOps : \E arg \in ArgsOf(op) : BcWrite(op, arg) /\ UNCHANGED <<slotVars, frVars, cmVars, pyVars, hashVars>>
    \/ BcAddrToPatch /\ UNCHANGED <<slotVars, frVars, cmVars, pyVars, hashVars>>
    \/ \E i \in 1..MaxPatches : BcPatchAddr(i) /\ UNCHANGED <<slotVars, frVars, cmVars, pyVars, hashVars>>
    \/ \E spans \in 0..MaxSpanTable : BcFinish(spans) /\ UNCHANGED <<slotVars, frVars, cmVars, pyVars, hashVars>>
    \/ BcDropWriter /\ UNCHANGED <<slotVars, frVars, cmVars, pyVars, hashVars>>
    \/ BcDropInstrs /\ UNCHANGED <<slotVars, frVars, cmVars, pyVars, hashVars>>

(***************************************************************************)
(* The call IR and its freeze-time optimisation.  An expression is a       *)
(* record [t, v, call]: t = "Value" (v a frozen value), "Local" (v a local *)
(* slot), "Module" (v a module slot) or "Call" (call = <<c>>).  A call is  *)
(* a record [t, fun, this, v, args, span]:                                 *)
(*   Call(fun, args)          t = "Call",   fun = <<fun>>                  *)
(*   Frozen(this, fun, args)  t = "Frozen", this (0 is None), v = fun      *)
(*   Method(this, name, args) t = "Method", fun = <<this>>, v = name       *)
(***************************************************************************)
Value(v) == [t |-> "Value", v |-> v, call |-> <<>>]

Local(l) == [t |-> "Local", v |-> l, call |-> <<>>]

Module(slot) == [t |-> "Module", v |-> slot, call |-> <<>>]

CallExpr(c) == [t |-> "Call", v |-> 0, call |-> <<c>>]

NoThis == 0

CallCompiled_Call(fun, args, span) ==
    [t |-> "Call", fun |-> <<fun>>, this |-> NoThis, v |-> 0, args |-> args, span |-> span]

CallCompiled_Frozen(this, fun, args, span) ==
    [t |-> "Frozen", fun |-> <<>>, this |-> this, v |-> fun, args |-> args, span |-> span]

CallCompiled_Method(this, field, args, span) ==
    [t |-> "Method", fun |-> <<this>>, this |-> NoThis, v |-> field, args |-> args, span |-> span]

\* ArgsCompiledValue; args and kwargs are Options: <<>> or <<e>>.
ArgsCompiledValue(pos_named, names, args, kwargs) ==
    [pos_named |-> pos_named, names |-> names, args |-> args, kwargs |-> kwargs]

ArgsCompiledValue_default == ArgsCompiledValue(<<>>, <<>>, <<>>, <<>>)

\* The frozen module: slot 1 holds the frozen value 2, every other slot is unassigned (0).
module_get_slot(slot) == IF slot = 1 THEN 2 ELSE 0

RECURSIVE ExprOptimize(_)
RECURSIVE ArgsOptimize(_)
RECURSIVE CallOptimize(_)

\* The Call arm building Frozen from the args it was given, not the optimised ones.
CallOptimize_stale_args(c) ==
    CASE c.t = "Call" ->
            LET fun == ExprOptimize(c.fun[1])
                args == ArgsOptimize(c.args) IN
            IF fun.t = "Value"
            THEN CallCompiled_Frozen(NoThis, fun.v, c.args, c.span)
            ELSE CallCompiled_Call(fun, args, c.span)
      [] c.t = "Frozen" ->
            CallCompiled_Frozen(c.this, c.v, ArgsOptimize(c.args), c.span)
      [] c.t = "Method" ->
            CallCompiled_Method(ExprOptimize(c.fun[1]), c.v, ArgsOptimize(c.args), c.span)

\* The Call arm never rewriting to Frozen.
CallOptimize_keeps_call(c) ==
    CASE c.t = "Call" ->
            CallCompiled_Call(ExprOptimize(c.fun[1]), ArgsOptimize(c.args), c.span)
      [] c.t = "Frozen" ->
            CallCompiled_Frozen(c.this, c.v, ArgsOptimize(c.args), c.span)
      [] c.t = "Method" ->
            CallCompiled_Method(ExprOptimize(c.fun[1]), c.v, ArgsOptimize(c.args), c.span)

\* A Method whose receiver became a value rewritten to Frozen, like a Call.
CallOptimize_method_to_frozen(c) ==
    CASE c.t = "Call" ->
            LET fun == ExprOptimize(c.fun[1])
                args == ArgsOptimize(c.args) IN
            IF fun.t = "Value"
            THEN CallCompiled_Frozen(NoThis, fun.v, args, c.span)
            ELSE CallCompiled_Call(fun, args, c.span)
      [] c.t = "Frozen" ->
            CallCompiled_Frozen(c.this, c.v, ArgsOptimize(c.args), c.span)
      [] c.t = "Method" ->
            LET this == ExprOptimize(c.fun[1]) IN
            IF this.t = "Value"
            THEN CallCompiled_Frozen(this.v, c.v, ArgsOptimize(c.args), c.span)
            ELSE CallCompiled_Method(this, c.v, ArgsOptimize(c.args), c.span)

\* Spanned<CallCompiled>::optimize_on_freeze: the closure given to self.map,
\* which keeps the span.
CallOptimize(c) ==
    CASE c.t = "Call" ->
            LET fun == ExprOptimize(c.fun[1])
                args == ArgsOptimize(c.args) IN
            IF fun.t = "Value"
            THEN CallCompiled_Frozen(NoThis, fun.v, args, c.span)
            ELSE CallCompiled_Call(fun, args, c.span)
      [] c.t = "Frozen" ->
            CallCompiled_Frozen(c.this, c.v, ArgsOptimize(c.args), c.span)
      [] c.t = "Method" ->
            CallCompiled_Method(ExprOptimize(c.fun[1]), c.v, ArgsOptimize(c.args), c.span)

\* ArgsCompiledValue::optimize_on_freeze
ArgsOptimize(a) ==
    ArgsCompiledValue(
        [i \in 1..Len(a.pos_named) |-> ExprOptimize(a.pos_named[i])],
        a.names,
        [i \in 1..Len(a.args) |-> ExprOptimize(a.args[i])],
        [i \in 1..Len(a.kwargs) |-> ExprOptimize(a.kwargs[i])])

\* Spanned<ExprCompiledValue>::optimize_on_freeze: a module slot that holds
\* a value becomes that value, a call is optimised as a call
\* (ExprCompiledValue::Call of the optimised call), the rest is unchanged.
ExprOptimize(e) ==
    CASE e.t = "Module" ->
            IF module_get_slot(e.v) # 0 THEN Value(module_get_slot(e.v)) ELSE e
      [] e.t = "Call" -> CallExpr(CallOptimize(e.call[1]))
      [] OTHER -> e

(***************************************************************************)
(* The call trees the optimiser is run on.                                 *)
(***************************************************************************)
Leaves == {Value(1), Local(1), Module(1), Module(2)}

\* Calls without arguments over the leaves: the nested calls.
InnerCalls ==
    {CallCompiled_Call(f, ArgsCompiledValue_default, 1) : f \in Leaves}
        \cup {CallCompiled_Frozen(th, 1, ArgsCompiledValue_default, 1) : th \in {NoThis, 1}}
        \cup {CallCompiled_Method(f, 1, ArgsCompiledValue_default, 1) : f \in Leaves}

\* The callee and receiver expressions.
FunExprs == Leaves \cup {CallExpr(c) : c \in InnerCalls}

\* The positional and named argument expressions.
ArgExprs ==
    {Value(1), Local(1), Module(1),
     CallExpr(CallCompiled_Call(Module(1), ArgsCompiledValue_default, 1))}

\* The *args and **kwargs expressions.
StarExprs == {<<>>, <<Module(1)>>}

SeqsUpTo(S, n) == UNION {[1..k -> S] : k \in 0..n}

\* The names of the named tail: k distinct names.
NamesOf(k) == [i \in 1..k |-> i]

ArgsSet ==
    {ArgsCompiledValue(p, NamesOf(k), a, kw) :
        p \in SeqsUpTo(ArgExprs, MaxPos), k \in 0..MaxPos, a \in StarExprs, kw \in StarExprs}

CallTrees ==
    {c \in
        {CallCompiled_Call(f, a, 2) : f \in FunExprs, a \in ArgsSet}
            \cup {CallCompiled_Frozen(th, 1, a, 2) : th \in {NoThis, 1}, a \in ArgsSet}
            \cup {CallCompiled_Method(f, 1, a, 2) : f \in FunExprs, a \in ArgsSet} :
        Len(c.args.names) <= Len(c.args.pos_named)}

NoCall == CallCompiled_Frozen(NoThis, 0, ArgsCompiledValue_default, 0)

FreezeIdle ==
    /\ ir = NoCall
    /\ once = NoCall
    /\ twice = NoCall
    /\ fpc = "idle"

FreezeInit ==
    /\ ir \in CallTrees
    /\ once = NoCall
    /\ twice = NoCall
    /\ fpc = "in"

FreezeOnce ==
    /\ fpc = "in"
    /\ once' = CallOptimize(ir)
    /\ fpc' = "once"
    /\ UNCHANGED <<ir, twice>>

FreezeTwice ==
    /\ fpc = "once"
    /\ twice' = CallOptimize(once)
    /\ fpc' = "twice"
    /\ UNCHANGED <<ir, once>>

FreezeNext ==
    \/ FreezeOnce /\ UNCHANGED <<slotVars, bcVars, cmVars, pyVars, hashVars>>
    \/ FreezeTwice /\ UNCHANGED <<slotVars, bcVars, cmVars, pyVars, hashVars>>
(***************************************************************************)
(* Compilation of a call expression: Compiler::expr_call and what it       *)
(* calls.  A string is a sequence of one-character strings.  A frozen      *)
(* value is a number: the builtins and functions below, or the address of  *)
(* a string on the frozen heap.                                            *)
(***************************************************************************)
Chars == <<"{", "}", "%", "s">>

CharCode(c) == CHOOSE i \in 1..Len(Chars) : Chars[i] = c

fn_type == 1

fn_len == 2

\* A FrozenDef whose def_info.returns_type_is is Some("int").
def_type_is == 3

\* A FrozenDef whose def_info.returns_type_is is None.
def_plain == 4

\* A frozen value that is no function and has the fields "f" (holding
\* def_plain) and "g" (holding def_type_is).
struct_value == 5

\* The methods of a string: str.format and str.upper.
str_format == 6

str_upper == 7

\* Frozen heap addresses of strings start here.
StrBase == 10

\* FrozenHeap::alloc_string_value: equal strings get equal addresses, and
\* the address determines the string.
RECURSIVE StrCode(_)
StrCode(s) ==
    IF s = <<>> THEN 0
    ELSE StrCode(SubSeq(s, 1, Len(s) - 1)) * (Len(Chars) + 1) + CharCode(s[Len(s)])

alloc_string_value(s) == StrBase + StrCode(s)

\* FrozenStringValue::as_str: the string stored at a heap address.
RECURSIVE as_str(_)
as_str(fv) ==
    IF fv = StrBase THEN <<>>
    ELSE LET n == fv - StrBase IN
         Append(as_str(StrBase + (n \div (Len(Chars) + 1))), Chars[n % (Len(Chars) + 1)])

IsString(v) == v >= StrBase

IsFrozenDef(v) == v \in {def_type_is, def_plain}

\* FrozenDef::def_info.returns_type_is : Option<FrozenStringValue>
returns_type_is(v) == IF v = def_type_is THEN <<"int">> ELSE <<>>

\* The syntax tree.  An expression atom is [k, v, s]: a string literal
\* (k = "Str"), a name bound to a frozen constant (k = "Const") or a local
\* variable (k = "Local").
CstStr(s) == [k |-> "Str", v |-> 0, s |-> s]

CstConst(v) == [k |-> "Const", v |-> v, s |-> <<>>]

CstLocal(l) == [k |-> "Local", v |-> l, s |-> <<>>]

\* ArgumentP: Positional(e), Named(name, e), Args(e), KwArgs(e).
Positional(e) == [k |-> "Positional", name |-> "", e |-> e]

Named(name, e) == [k |-> "Named", name |-> name, e |-> e]

Args(e) == [k |-> "Args", name |-> "", e |-> e]

KwArgs(e) == [k |-> "KwArgs", name |-> "", e |-> e]

is_positional(x) == x.k = "Positional"

\* ExprP::Dot(e, s) as callee (dot = TRUE), or any other callee expression e.
Dot(e, s) == [dot |-> TRUE, e |-> e, s |-> s]

NotDot(e) == [dot |-> FALSE, e |-> e, s |-> ""]

\* Compiler::expr on an atom: a literal or a constant name is a Value, a
\* local variable is a Local.
expr(e) ==
    CASE e.k = "Str" -> Value(alloc_string_value(e.s))
      [] e.k = "Const" -> Value(e.v)
      [] e.k = "Local" -> Local(e.v)

\* ExprCompiledValue::as_value : Option<FrozenValue>
as_value(e) == IF e.t = "Value" THEN <<e.v>> ELSE <<>>

\* ExprCompiledValue::as_string : Option<String>
as_string(e) == IF e.t = "Value" /\ IsString(e.v) THEN <<as_str(e.v)>> ELSE <<>>

NoBrace(s) == \A i \in 1..Len(s) : s[i] \notin {"{", "}"}

\* parse_format_one: Some((before, after)) when the string is
\* before ++ "{}" ++ after with no other brace in it, else None.
parse_format_one(s) ==
    LET At == {i \in 1..(Len(s) - 1) :
                    /\ s[i] = "{" /\ s[i + 1] = "}"
                    /\ NoBrace(SubSeq(s, 1, i - 1))
                    /\ NoBrace(SubSeq(s, i + 2, Len(s)))} IN
    IF At = {} THEN <<>>
    ELSE LET i == CHOOSE j \in At : TRUE IN
         << <<SubSeq(s, 1, i - 1), SubSeq(s, i + 2, Len(s))>> >>

\* Compiler::compile_time_getattr : Option<(AttrType, FrozenValue)>
compile_time_getattr(v, s) ==
    CASE IsString(v) /\ s = "format" -> <<[at |-> "Method", fun |-> str_format]>>
      [] IsString(v) /\ s = "upper" -> <<[at |-> "Method", fun |-> str_upper]>>
      [] v = struct_value /\ s = "f" -> <<[at |-> "Field", fun |-> def_plain]>>
      [] v = struct_value /\ s = "g" -> <<[at |-> "Field", fun |-> def_type_is]>>
      [] OTHER -> <<>>

\* The ExprCompiledValue forms expr_call returns, as records
\* [t, x, ty, before, after, call]: x = <<sub-expression>>, call = <<c>>.
ExprCompiledValue_Type(x) ==
    [t |-> "Type", x |-> <<x>>, ty |-> "", before |-> 0, after |-> 0, call |-> <<>>]

ExprCompiledValue_Len(x) ==
    [t |-> "Len", x |-> <<x>>, ty |-> "", before |-> 0, after |-> 0, call |-> <<>>]

\* TypeIs(x, t, MaybeNot::Id)
ExprCompiledValue_TypeIs(x, ty) ==
    [t |-> "TypeIs", x |-> <<x>>, ty |-> ty, before |-> 0, after |-> 0, call |-> <<>>]

ExprCompiledValue_FormatOne(before, arg, after) ==
    [t |-> "FormatOne", x |-> <<arg>>, ty |-> "", before |-> before, after |-> after,
     call |-> <<>>]

ExprCompiledValue_Call(c) ==
    [t |-> "Call", x |-> <<>>, ty |-> "", before |-> 0, after |-> 0, call |-> <<c>>]

\* Compiler::fn_type: the specialised type(x).
Compiler_fn_type(e) == ExprCompiledValue_Type(expr(e))

\* Compiler::args, the loop body on one argument.  An entry of names is
\* the name: Symbol::new(name) and the allocated string are both made of it.
args_step_named_first(res, x) ==
    CASE x.k = "Positional" -> [res EXCEPT !.pos_named = Append(@, expr(x.e))]
      [] x.k = "Named" ->
            [res EXCEPT !.names = Append(@, x.name),
                        !.pos_named = <<expr(x.e)>> \o @]
      [] x.k = "Args" -> [res EXCEPT !.args = <<expr(x.e)>>]
      [] x.k = "KwArgs" -> [res EXCEPT !.kwargs = <<expr(x.e)>>]

args_step(res, x) ==
    CASE x.k = "Positional" -> [res EXCEPT !.pos_named = Append(@, expr(x.e))]
      [] x.k = "Named" ->
            [res EXCEPT !.names = Append(@, x.name),
                        !.pos_named = Append(@, expr(x.e))]
      [] x.k = "Args" -> [res EXCEPT !.args = <<expr(x.e)>>]
      [] x.k = "KwArgs" -> [res EXCEPT !.kwargs = <<expr(x.e)>>]

RECURSIVE args_loop(_, _)
args_loop(res, xs) ==
    IF xs = <<>> THEN res ELSE args_loop(args_step(res, Head(xs)), Tail(xs))

\* Compiler::args
Compiler_args(xs) == args_loop(ArgsCompiledValue_default, xs)

expr_call_fun_frozen_no_special(span, this, fun, xs) ==
    ExprCompiledValue_Call(CallCompiled_Frozen(this, fun, Compiler_args(xs), span))

\* The specialisations taken whenever there is one argument, whatever its kind.
expr_call_fun_frozen_any_arg(span, left, xs) ==
    LET one_positional == Len(xs) = 1 IN
    IF left = fn_type /\ one_positional
    THEN Compiler_fn_type(xs[1].e)
    ELSE IF left = fn_len /\ one_positional
    THEN ExprCompiledValue_Len(expr(xs[1].e))
    ELSE IF one_positional /\ IsFrozenDef(left) /\ returns_type_is(left) # <<>>
    THEN ExprCompiledValue_TypeIs(expr(xs[1].e), returns_type_is(left)[1])
    ELSE expr_call_fun_frozen_no_special(span, NoThis, left, xs)

expr_call_fun_frozen(span, left, xs) ==
    LET one_positional == Len(xs) = 1 /\ is_positional(xs[1]) IN
    IF left = fn_type /\ one_positional
    THEN Compiler_fn_type(xs[1].e)
    ELSE IF left = fn_len /\ one_positional
    THEN ExprCompiledValue_Len(expr(xs[1].e))
    ELSE IF one_positional /\ IsFrozenDef(left) /\ returns_type_is(left) # <<>>
    THEN ExprCompiledValue_TypeIs(expr(xs[1].e), returns_type_is(left)[1])
    ELSE expr_call_fun_frozen_no_special(span, NoThis, left, xs)

expr_call_fun_compiled(span, left, xs) ==
    IF as_value(left) # <<>>
    THEN expr_call_fun_frozen(span, as_value(left)[1], xs)
    ELSE ExprCompiledValue_Call(CallCompiled_Call(left, Compiler_args(xs), span))

\* The tail of expr_call_method, after the format peephole did not return.
\* The attribute found at compile time called as a plain function would be.
expr_call_method_generic_special(span, e, s, xs) ==
    IF as_value(e) # <<>> /\ compile_time_getattr(as_value(e)[1], s) # <<>>
    THEN LET g == compile_time_getattr(as_value(e)[1], s)[1] IN
         IF g.at = "Field"
         THEN expr_call_fun_frozen(span, g.fun, xs)
         ELSE expr_call_fun_frozen_no_special(span, as_value(e)[1], g.fun, xs)
    ELSE ExprCompiledValue_Call(CallCompiled_Method(e, s, Compiler_args(xs), span))

expr_call_method_generic(span, e, s, xs) ==
    IF as_value(e) # <<>> /\ compile_time_getattr(as_value(e)[1], s) # <<>>
    THEN LET g == compile_time_getattr(as_value(e)[1], s)[1]
             this == IF g.at = "Field" THEN NoThis ELSE as_value(e)[1] IN
         expr_call_fun_frozen_no_special(span, this, g.fun, xs)
    ELSE ExprCompiledValue_Call(CallCompiled_Method(e, s, Compiler_args(xs), span))

\* The format peephole taken for every method name.
expr_call_method_any_name(span, ce, s, xs) ==
    LET e == expr(ce) IN
    IF /\ as_string(e) # <<>>
       /\ Len(xs) = 1
       /\ xs[1].k = "Positional"
       /\ parse_format_one(as_string(e)[1]) # <<>>
    THEN LET p == parse_format_one(as_string(e)[1])[1] IN
         ExprCompiledValue_FormatOne(
            alloc_string_value(p[1]), expr(xs[1].e), alloc_string_value(p[2]))
    ELSE expr_call_method_generic(span, e, s, xs)

\* The format peephole storing the parsed parts in the wrong order.
expr_call_method_swapped(span, ce, s, xs) ==
    LET e == expr(ce) IN
    IF /\ as_string(e) # <<>>
       /\ s = "format" /\ Len(xs) = 1
       /\ xs[1].k = "Positional"
       /\ parse_format_one(as_string(e)[1]) # <<>>
    THEN LET p == parse_format_one(as_string(e)[1])[1] IN
         ExprCompiledValue_FormatOne(
            alloc_string_value(p[2]), expr(xs[1].e), alloc_string_value(p[1]))
    ELSE expr_call_method_generic(span, e, s, xs)

expr_call_method(span, ce, s, xs) ==
    LET e == expr(ce) IN
    IF /\ as_string(e) # <<>>
       /\ s = "format" /\ Len(xs) = 1
       /\ xs[1].k = "Positional"
       /\ parse_format_one(as_string(e)[1]) # <<>>
    THEN LET p == parse_format_one(as_string(e)[1])[1] IN
         ExprCompiledValue_FormatOne(
            alloc_string_value(p[1]), expr(xs[1].e), alloc_string_value(p[2]))
    ELSE expr_call_method_generic(span, e, s, xs)

expr_call(span, left, xs) ==
    IF left.dot
    THEN expr_call_method(span, left.e, left.s, xs)
    ELSE expr_call_fun_compiled(span, expr(left.e), xs)

(***************************************************************************)
(* The % operator on a string literal, and the evaluation of the compiled  *)
(* forms.  A runtime value is [k, n, items]: an int n or a tuple of ints.  *)
(***************************************************************************)
ExprCompiledValue_PercentSOne(before, arg, after) ==
    [t |-> "PercentSOne", x |-> <<arg>>, ty |-> "", before |-> before, after |-> after,
     call |-> <<>>]

\* The unspecialised operator: Op(Percent, left, right).
ExprCompiledValue_Percent(l, r) ==
    [t |-> "Percent", x |-> <<l, r>>, ty |-> "", before |-> 0, after |-> 0, call |-> <<>>]

NoPercent(s) == \A i \in 1..Len(s) : s[i] # "%"

\* parse_percent_s_one: Some((before, after)) when the string is
\* before ++ "%s" ++ after with no other % in it, else None.
parse_percent_s_one(s) ==
    LET At == {i \in 1..(Len(s) - 1) :
                    /\ s[i] = "%" /\ s[i + 1] = "s"
                    /\ NoPercent(SubSeq(s, 1, i - 1))
                    /\ NoPercent(SubSeq(s, i + 2, Len(s)))} IN
    IF At = {} THEN <<>>
    ELSE LET i == CHOOSE j \in At : TRUE IN
         << <<SubSeq(s, 1, i - 1), SubSeq(s, i + 2, Len(s))>> >>

\* Compilation of `l % r`.
expr_percent(l, r) ==
    LET e == expr(l) IN
    IF as_string(e) # <<>> /\ parse_percent_s_one(as_string(e)[1]) # <<>>
    THEN LET p == parse_percent_s_one(as_string(e)[1])[1] IN
         ExprCompiledValue_PercentSOne(
            alloc_string_value(p[1]), expr(r), alloc_string_value(p[2]))
    ELSE ExprCompiledValue_Percent(e, expr(r))

RInt(n) == [k |-> "int", n |-> n, items |-> <<>>]

RTuple(items) == [k |-> "tuple", n |-> 0, items |-> items]

Digits == <<"0", "1", "2", "3", "4", "5", "6", "7", "8", "9">>

RECURSIVE join_items(_)
join_items(items) ==
    IF items = <<>> THEN <<>>
    ELSE IF Len(items) = 1 THEN <<Digits[items[1] + 1]>>
    ELSE <<Digits[items[1] + 1], ",", " ">> \o join_items(Tail(items))

\* Value::to_str: 1 is "1", (1,) is "(1,)", (1, 2) is "(1, 2)".
to_str(x) ==
    IF x.k = "int" THEN <<Digits[x.n + 1]>>
    ELSE <<"(">> \o join_items(x.items)
            \o (IF Len(x.items) = 1 THEN <<",">> ELSE <<>>) \o <<")">>

Ok(s) == [ok |-> TRUE, s |-> s]

Err == [ok |-> FALSE, s |-> <<>>]

\* str.format on positional arguments: "{}" takes the next argument, "{{"
\* and "}}" are braces, any other brace is an error.
RECURSIVE format_walk(_, _, _, _)
format_walk(s, i, xs, acc) ==
    IF i > Len(s) THEN Ok(acc)
    ELSE IF s[i] = "{"
    THEN IF i + 1 > Len(s) THEN Err
         ELSE IF s[i + 1] = "{" THEN format_walk(s, i + 2, xs, Append(acc, "{"))
         ELSE IF s[i + 1] = "}"
         THEN IF xs = <<>> THEN Err
              ELSE format_walk(s, i + 2, Tail(xs), acc \o to_str(Head(xs)))
         ELSE Err
    ELSE IF s[i] = "}"
    THEN IF i + 1 <= Len(s) /\ s[i + 1] = "}"
         THEN format_walk(s, i + 2, xs, Append(acc, "}"))
         ELSE Err
    ELSE format_walk(s, i + 1, xs, Append(acc, s[i]))

format(s, xs) == format_walk(s, 1, xs, <<>>)

\* The % operator of a string: a tuple on the right gives the arguments,
\* any other value is the one argument; "%s" takes the next argument,
\* "%%" is a percent sign; arguments left over are an error.
RECURSIVE percent_walk(_, _, _, _)
percent_walk(s, i, xs, acc) ==
    IF i > Len(s) THEN (IF xs = <<>> THEN Ok(acc) ELSE Err)
    ELSE IF s[i] = "%"
    THEN IF i + 1 > Len(s) THEN Err
         ELSE IF s[i + 1] = "%" THEN percent_walk(s, i + 2, xs, Append(acc, "%"))
         ELSE IF s[i + 1] = "s"
         THEN IF xs = <<>> THEN Err
              ELSE percent_walk(s, i + 2, Tail(xs), acc \o to_str(Head(xs)))
         ELSE Err
    ELSE percent_walk(s, i + 1, xs, Append(acc, s[i]))

percent(s, x) ==
    percent_walk(s, 1,
        IF x.k = "tuple" THEN [i \in 1..Len(x.items) |-> RInt(x.items[i])] ELSE <<x>>,
        <<>>)

\* The FormatOne instruction.
format_one(before, x, after) == Ok(as_str(before) \o to_str(x) \o as_str(after))

\* The PercentSOne instruction: a one-element tuple is unwrapped.
percent_s_one(before, x, after) ==
    IF x.k = "tuple"
    THEN IF Len(x.items) = 1
         THEN format_one(before, RInt(x.items[1]), after)
         ELSE Err
    ELSE format_one(before, x, after)

\* Running a specialised form with every local variable bound to x.
EvalCompiled(out, x) ==
    IF out.t = "FormatOne" THEN format_one(out.before, x, out.after)
    ELSE percent_s_one(out.before, x, out.after)

\* Running the source expression without specialisation.
EvalSource(c, x) ==
    IF c.op = "call" THEN format(c.left.e.s, <<x>>) ELSE percent(c.left.e.s, x)

(***************************************************************************)
(* The call expressions the compiler is run on.                            *)
(***************************************************************************)
CharSet == {Chars[i] : i \in 1..Len(Chars)}

Strs == SeqsUpTo(CharSet, MaxStr)

ArgAtoms == {CstLocal(1), CstLocal(2)}

ArgItems ==
    {Positional(a) : a \in ArgAtoms}
        \cup {Named("a", CstLocal(1)), Named("b", CstLocal(2))}
        \cup {Args(CstLocal(1)), KwArgs(CstLocal(2))}

Stage(x) ==
    CASE x.k = "Positional" -> 0
      [] x.k = "Named" -> 1
      [] x.k = "Args" -> 2
      [] x.k = "KwArgs" -> 3

\* Expr::check_call: the argument lists the parser lets through: positional,
\* then named with distinct names, then at most one *args, then at most one
\* **kwargs.
check_call(xs) ==
    /\ \A i, j \in 1..Len(xs) : i < j => Stage(xs[i]) <= Stage(xs[j])
    /\ \A i, j \in 1..Len(xs) :
            (i < j /\ Stage(xs[i]) = Stage(xs[j]) /\ Stage(xs[i]) >= 1)
                => (xs[i].k = "Named" /\ xs[i].name # xs[j].name)

ArgLists == {xs \in SeqsUpTo(ArgItems, MaxArgs) : check_call(xs)}

Callees ==
    {NotDot(CstConst(v)) : v \in {fn_type, fn_len, def_type_is, def_plain, struct_value}}
        \cup {NotDot(CstLocal(1))}
        \cup {Dot(CstStr(str), s) : str \in Strs, s \in {"format", "upper"}}
        \cup {Dot(e, s) : e \in {CstConst(struct_value), CstLocal(1)},
                         s \in {"format", "f", "g"}}

CstCall(left, xs, span) == [op |-> "call", left |-> left, args |-> xs, span |-> span]

CstPercent(l, r) ==
    [op |-> "percent", left |-> NotDot(l), args |-> <<Positional(r)>>, span |-> 1]

CstCalls ==
    {CstCall(l, xs, 1) : l \in Callees, xs \in ArgLists}
        \cup {CstPercent(CstStr(str), r) : str \in Strs, r \in ArgAtoms}

RunValues == {RInt(1), RTuple(<<1>>), RTuple(<<1, 2>>), RTuple(<<>>)}

NoCst == CstCall(NotDot(CstLocal(0)), <<>>, 0)

NoOut == ExprCompiledValue_Call(NoCall)

NoRun == [x |-> RInt(0), spec |-> Err, gen |-> Err]

CompileIdle ==
    /\ cst = NoCst
    /\ cout = NoOut
    /\ crun = NoRun
    /\ cpc = "idle"

CompileInit ==
    /\ cst \in CstCalls
    /\ cout = NoOut
    /\ crun = NoRun
    /\ cpc = "in"

CompileCall ==
    /\ cpc = "in"
    /\ cst.op = "call"
    /\ cout' = expr_call(cst.span, cst.left, cst.args)
    /\ cpc' = "compiled"
    /\ UNCHANGED <<cst, crun>>

CompilePercent ==
    /\ cpc = "in"
    /\ cst.op = "percent"
    /\ cout' = expr_percent(cst.left.e, cst.args[1].e)
    /\ cpc' = "compiled"
    /\ UNCHANGED <<cst, crun>>

RunCompiled(x) ==
    /\ cpc = "compiled"
    /\ cout.t \in {"FormatOne", "PercentSOne"}
    /\ crun' = [x |-> x, spec |-> EvalCompiled(cout, x), gen |-> EvalSource(cst, x)]
    /\ cpc' = "ran"
    /\ UNCHANGED <<cst, cout>>

CompileNext ==
    \/ CompileCall /\ UNCHANGED <<slotVars, bcVars, frVars, pyVars, hashVars>>
    \/ CompilePercent /\ UNCHANGED <<slotVars, bcVars, frVars, pyVars, hashVars>>
    \/ \E x \in RunValues : RunCompiled(x) /\ UNCHANGED <<slotVars, bcVars, frVars, pyVars, hashVars>>

(***************************************************************************)
(* The Python binding: eval(content) and starlark_type_to_pyo3_type.       *)
(* A Starlark value is [ty, n, items]: ty is the type tag, n the payload   *)
(* of a scalar, items the elements of a list or tuple; the items of a dict *)
(* are its entries in iteration order, flattened: k1, v1, k2, v2, ...      *)
(* A host object is [h, n, items] in the same way, and HNull is the None   *)
(* of Option<PyObject>.                                                    *)
(***************************************************************************)
SStr(n) == [ty |-> "string", n |-> n, items |-> <<>>]

SBool(n) == [ty |-> "bool", n |-> n, items |-> <<>>]

SInt(n) == [ty |-> "int", n |-> n, items |-> <<>>]

\* The float n + 0.5.
SFloat(n) == [ty |-> "float", n |-> n, items |-> <<>>]

SNone == [ty |-> "NoneType", n |-> 0, items |-> <<>>]

\* A value of a type the projection has no arm for.
SFunction(n) == [ty |-> "function", n |-> n, items |-> <<>>]

SList(items) == [ty |-> "list", n |-> 0, items |-> items]

STuple(items) == [ty |-> "tuple", n |-> 0, items |-> items]

SDict(items) == [ty |-> "dict", n |-> 0, items |-> items]

HStr(n) == [h |-> "str", n |-> n, items |-> <<>>]

HBool(n) == [h |-> "bool", n |-> n, items |-> <<>>]

HInt(n) == [h |-> "int", n |-> n, items |-> <<>>]

HFloat(n) == [h |-> "float", n |-> n, items |-> <<>>]

HNull == [h |-> "null", n |-> 0, items |-> <<>>]

HList(items) == [h |-> "list", n |-> 0, items |-> items]

HTuple(items) == [h |-> "tuple", n |-> 0, items |-> items]

HDict(items) == [h |-> "dict", n |-> 0, items |-> items]

\* PyResult<Option<PyObject>>
PyOk(val) == [ok |-> TRUE, err |-> "", val |-> val]

PyErr(kind) == [ok |-> FALSE, err |-> kind, val |-> HNull]

\* Equality of two host objects as dict keys: True and 1 are the same key,
\* as are two equal strings, two nulls, and tuples of equal elements.
RECURSIVE HostEq(_, _)
HostEq(a, b) ==
    CASE a.h \in {"bool", "int"} /\ b.h \in {"bool", "int"} -> a.n = b.n
      [] a.h = "tuple" /\ b.h = "tuple" ->
            /\ Len(a.items) = Len(b.items)
            /\ \A i \in 1..Len(a.items) : HostEq(a.items[i], b.items[i])
      [] OTHER -> a.h = b.h /\ a.n = b.n /\ a.h \notin {"list", "dict", "tuple"}

\* PyDict::set_item: the host refuses the keys in reject; an equal key keeps
\* its place and takes the new value; a new key goes to the end.
set_item(pd, key, value, reject) ==
    IF key \in reject THEN PyErr("HostError")
    ELSE LET At == {i \in 1..(Len(pd) \div 2) : HostEq(pd[2 * i - 1], key)} IN
         IF At = {} THEN PyOk(HDict(pd \o <<key, value>>))
         ELSE LET i == CHOOSE j \in At : TRUE IN
              PyOk(HDict([pd EXCEPT ![2 * i] = value]))

RECURSIVE starlark_type_to_pyo3_type(_, _)
RECURSIVE dict_loop(_, _, _)
RECURSIVE collect(_, _)

\* The dict arm's loop over d.iter(): both projections and the insertion
\* return early on an error.
dict_loop(entries, pd, reject) ==
    IF entries = <<>> THEN PyOk(HDict(pd))
    ELSE LET k == starlark_type_to_pyo3_type(entries[1], reject) IN
         IF ~k.ok THEN k
         ELSE LET v == starlark_type_to_pyo3_type(entries[2], reject) IN
              IF ~v.ok THEN v
              ELSE LET r == set_item(pd, k.val, v.val, reject) IN
                   IF ~r.ok THEN r
                   ELSE dict_loop(SubSeq(entries, 3, Len(entries)), r.val.items, reject)

\* An element's error replaced by null.
collect_swallow(items, reject) ==
    IF items = <<>> THEN PyOk(HList(<<>>))
    ELSE LET x == starlark_type_to_pyo3_type(Head(items), reject)
             rest == collect(Tail(items), reject) IN
         IF ~rest.ok THEN rest
         ELSE PyOk(HList(<<(IF x.ok THEN x.val ELSE HNull)>> \o rest.val.items))

\* .map(..).collect::<PyResult<Vec<_>>>(): the first error, or all the elements.
collect(items, reject) ==
    IF items = <<>> THEN PyOk(HList(<<>>))
    ELSE LET x == starlark_type_to_pyo3_type(Head(items), reject) IN
         IF ~x.ok THEN x
         ELSE LET rest == collect(Tail(items), reject) IN
              IF ~rest.ok THEN rest
              ELSE PyOk(HList(<<x.val>> \o rest.val.items))

\* The tuple arm building a host list.
starlark_type_to_pyo3_type_tuple_as_list(v, reject) ==
    CASE v.ty = "string" -> PyOk(HStr(v.n))
      [] v.ty = "bool" -> PyOk(HBool(v.n))
      [] v.ty = "dict" -> dict_loop(v.items, <<>>, reject)
      [] v.ty = "float" -> PyOk(HFloat(v.n))
      [] v.ty = "int" -> PyOk(HInt(v.n))
      [] v.ty = "list" -> collect(v.items, reject)
      [] v.ty = "NoneType" -> PyOk(HNull)
      [] v.ty = "tuple" -> collect(v.items, reject)
      [] OTHER -> PyOk(HNull)

starlark_type_to_pyo3_type(v, reject) ==
    CASE v.ty = "string" -> PyOk(HStr(v.n))
      [] v.ty = "bool" -> PyOk(HBool(v.n))
      [] v.ty = "dict" -> dict_loop(v.items, <<>>, reject)
      [] v.ty = "float" -> PyOk(HFloat(v.n))
      [] v.ty = "int" -> PyOk(HInt(v.n))
      [] v.ty = "list" -> collect(v.items, reject)
      [] v.ty = "NoneType" -> PyOk(HNull)
      [] v.ty = "tuple" ->
            LET r == collect(v.items, reject) IN
            IF ~r.ok THEN r ELSE PyOk(HTuple(r.val.items))
      [] OTHER -> PyOk(HNull)

\* AstModule::parse(..).map_err(PySyntaxError)
AstModule_parse(src) == IF src.parse_ok THEN PyOk(HNull) ELSE PyErr("SyntaxError")

\* An evaluation failure reported as a syntax error.
eval_module_as_syntax(src) == IF src.eval_ok THEN PyOk(HNull) ELSE PyErr("SyntaxError")

\* eval.eval_module(ast, &globals).map_err(PyRuntimeError)
eval_module(src) == IF src.eval_ok THEN PyOk(HNull) ELSE PyErr("RuntimeError")

(***************************************************************************)
(* The contents eval is called on: whether the content parses, whether it  *)
(* evaluates, the value it evaluates to, and the keys the host refuses.    *)
(***************************************************************************)
Scalars == {SStr(1), SBool(1), SInt(1), SInt(2), SFloat(1), SNone, SFunction(1)}

\* The elements of the containers: scalars and containers of scalars.
OuterElems ==
    {SInt(1), SFunction(1), SList(<<SFunction(1)>>), STuple(<<SInt(1)>>),
     SDict(<<SInt(2), SInt(1)>>)}

\* The keys of the dicts.
OuterKeys == {SBool(1), SInt(1), SInt(2), STuple(<<SInt(1)>>)}

\* The entries of a dict, flattened.
RECURSIVE Flatten(_, _)
Flatten(ks, vs) ==
    IF ks = <<>> THEN <<>> ELSE <<Head(ks), Head(vs)>> \o Flatten(Tail(ks), Tail(vs))

StarlarkValues ==
    Scalars
        \cup {SList(s) : s \in SeqsUpTo(OuterElems, MaxItems)}
        \cup {STuple(s) : s \in SeqsUpTo(OuterElems, MaxItems)}
        \cup UNION {{SDict(Flatten(ks, vs)) :
                        ks \in {s \in [1..n -> OuterKeys] :
                                    \A i, j \in 1..n : i # j => s[i] # s[j]},
                        vs \in [1..n -> OuterElems]} : n \in 0..MaxItems}

Rejects == {{}, {HInt(2)}}

Contents ==
    [parse_ok : BOOLEAN, eval_ok : BOOLEAN, value : StarlarkValues, reject : Rejects]

NoContent == [parse_ok |-> FALSE, eval_ok |-> FALSE, value |-> SNone, reject |-> {}]

PyIdle ==
    /\ pysrc = NoContent
    /\ pyres = PyOk(HNull)
    /\ pylog = <<>>
    /\ ppc = "idle"

PyInit ==
    /\ pysrc \in Contents
    /\ pyres = PyOk(HNull)
    /\ pylog = <<>>
    /\ ppc = "in"

\* eval, lines 83-84: parse, or return the syntax error.
PyParse ==
    /\ ppc = "in"
    /\ pylog' = Append(pylog, "parse")
    /\ LET r == AstModule_parse(pysrc) IN
       IF r.ok
       THEN ppc' = "parsed" /\ UNCHANGED pyres
       ELSE ppc' = "done" /\ pyres' = r
    /\ UNCHANGED pysrc

\* eval, lines 85-92: evaluate, or return the runtime error.
PyEvaluate ==
    /\ ppc = "parsed"
    /\ pylog' = Append(pylog, "evaluate")
    /\ LET r == eval_module(pysrc) IN
       IF r.ok
       THEN ppc' = "evaluated" /\ UNCHANGED pyres
       ELSE ppc' = "done" /\ pyres' = r
    /\ UNCHANGED pysrc

\* eval, lines 93-95: project the value and return.
PyProject ==
    /\ ppc = "evaluated"
    /\ pylog' = Append(pylog, "project")
    /\ pyres' = starlark_type_to_pyo3_type(pysrc.value, pysrc.reject)
    /\ ppc' = "done"
    /\ UNCHANGED pysrc

PyNext ==
    \/ PyParse /\ UNCHANGED <<slotVars, bcVars, frVars, cmVars, hashVars>>
    \/ PyEvaluate /\ UNCHANGED <<slotVars, bcVars, frVars, cmVars, hashVars>>
    \/ PyProject /\ UNCHANGED <<slotVars, bcVars, frVars, cmVars, hashVars>>

(***************************************************************************)
(* StarlarkHasher.  A u64 is four 16-bit limbs, the lowest first; a u32 is *)
(* two.  DefaultHasher is the standard library's: its state is a u64 that  *)
(* every byte written is mixed into, from fixed keys.                      *)
(***************************************************************************)
\* DefaultHasher::new(): the same keys in every instance.
DefaultHasher_new == <<25973, 28787, 28005, 29551>>

\* One byte mixed into the state: state * 31 + byte + 1, modulo 2^64.
DefaultHasher_round(v, b) ==
    LET t1 == v[1] * 31 + b + 1
        t2 == v[2] * 31 + (t1 \div 65536)
        t3 == v[3] * 31 + (t2 \div 65536)
        t4 == v[4] * 31 + (t3 \div 65536) IN
    <<t1 % 65536, t2 % 65536, t3 % 65536, t4 % 65536>>

RECURSIVE DefaultHasher_write(_, _)
DefaultHasher_write(v, bytes) ==
    IF bytes = <<>> THEN v
    ELSE DefaultHasher_write(DefaultHasher_round(v, bytes[1]), SubSeq(bytes, 2, Len(bytes)))

\* DefaultHasher::finish(&self) -> u64: a last round over the state.
DefaultHasher_finish(v) == DefaultHasher_round(DefaultHasher_round(v, 0), v[4] % 256)

\* StarlarkHasher::new() -> StarlarkHasher::default()
StarlarkHasher_new == DefaultHasher_new

\* Hasher::finish for StarlarkHasher: self.0.finish()
Hasher_finish(self) == DefaultHasher_finish(self)

\* Hasher::write for StarlarkHasher: self.0.write(bytes)
Hasher_write(self, bytes) == DefaultHasher_write(self, bytes)

\* u64 as u32: the conversion keeps the low 32 bits.
as_u32(x) == SubSeq(x, 1, 2)

\* A finish_small that keeps the upper half.
finish_small_high(self) == SubSeq(Hasher_finish(self), 3, 4)

\* SmallHashResult::new_unchecked(self.finish() as u32)
finish_small(self) == as_u32(Hasher_finish(self))

Bytes == {0, 1, 255}

Chunks == {c \in SeqsUpTo(Bytes, MaxBytes) : c # <<>>}

NoHash == [op |-> "new", i |-> 0, full |-> <<>>, small |-> <<>>]

HashInit ==
    /\ hashers = [i \in 1..2 |-> [h |-> StarlarkHasher_new, fed |-> <<>>, live |-> TRUE]]
    /\ hlast = NoHash

\* hasher i: write(bytes)
HWrite(i, bytes) ==
    /\ hashers[i].live
    /\ Len(hashers[i].fed) + Len(bytes) <= MaxBytes
    /\ hashers' = [hashers EXCEPT ![i].h = Hasher_write(@, bytes),
                                  ![i].fed = @ \o bytes]
    /\ hlast' = [NoHash EXCEPT !.op = "write", !.i = i]

\* hasher i: finish(&self)
HFinish(i) ==
    /\ hashers[i].live
    /\ hlast' = [op |-> "finish", i |-> i, full |-> Hasher_finish(hashers[i].h),
                 small |-> <<>>]
    /\ UNCHANGED hashers

\* hasher i: finish_small(self); the hasher is consumed.
HFinishSmall(i) ==
    /\ hashers[i].live
    /\ hlast' = [op |-> "finish_small", i |-> i, full |-> Hasher_finish(hashers[i].h),
                 small |-> finish_small(hashers[i].h)]
    /\ hashers' = [hashers EXCEPT ![i].live = FALSE]

HashNext ==
    \/ \E i \in 1..2, bytes \in Chunks : HWrite(i, bytes) /\ UNCHANGED <<slotVars, bcVars, frVars, cmVars, pyVars>>
    \/ \E i \in 1..2 : HFinish(i) /\ UNCHANGED <<slotVars, bcVars, frVars, cmVars, pyVars>>
    \/ \E i \in 1..2 : HFinishSmall(i) /\ UNCHANGED <<slotVars, bcVars, frVars, cmVars, pyVars>>

(***************************************************************************)
(* The specifications.  Each runs one subsystem and keeps the others in    *)
(* their initial state.                                                    *)
(***************************************************************************)
BcInit == (WriterNew \/ InstrsDefault) /\ SlotsInit /\ FreezeIdle /\ CompileIdle /\ PyIdle /\ HashInit

SpecBc == BcInit /\ [][BcNext]_vars

SlotsSpecInit == SlotsInit /\ WriterNew /\ FreezeIdle /\ CompileIdle /\ PyIdle /\ HashInit

SpecSlots == SlotsSpecInit /\ [][SlotsNext]_vars

SpecSlotsOdd == SlotsSpecInit /\ [][OddNext]_vars

FreezeSpecInit == FreezeInit /\ SlotsInit /\ WriterNew /\ CompileIdle /\ PyIdle /\ HashInit

SpecFreeze == FreezeSpecInit /\ [][FreezeNext]_vars

CompileSpecInit == CompileInit /\ SlotsInit /\ WriterNew /\ FreezeIdle /\ PyIdle /\ HashInit

SpecCompile == CompileSpecInit /\ [][CompileNext]_vars

PySpecInit == PyInit /\ SlotsInit /\ WriterNew /\ FreezeIdle /\ CompileIdle /\ HashInit

SpecPy == PySpecInit /\ [][PyNext]_vars

HashSpecInit == HashInit /\ SlotsInit /\ WriterNew /\ FreezeIdle /\ CompileIdle /\ PyIdle

SpecHash == HashSpecInit /\ [][HashNext]_vars

(***************************************************************************)
(* C1: for any properly nested sequence of reserve -> utilise -> release   *)
(* calls on a LocalSlots created by new(), whatever the depth and the      *)
(* set_slot calls inside, after the outermost release the stack is in its  *)
(* initial state: base = 0 and slots.len() = 0.                            *)
(***************************************************************************)
C1_SlotLifo ==
    (lifo /\ calls = <<>>) => (base = 0 /\ Len(slots) = 0)

\* The outermost release has just run; the activation it ended had written its locals.
C1_Witness ==
    /\ lifo
    /\ calls = <<>>
    /\ slast.op = "release"
    /\ slast.wrote
    /\ base = 0
    /\ slots = <<>>

(***************************************************************************)
(* C2 (as stated): in every reachable state of LocalSlots, after any       *)
(* sequence of reserve, utilise, release and release_after calls,          *)
(* base <= slots.len().                                                    *)
(***************************************************************************)
C2_Original ==
    base <= Len(slots)

(***************************************************************************)
(* C2 (amended): base <= slots.len() in every state reached by calls that  *)
(* follow the call protocol, release_after giving up only the latest       *)
(* reservation before it is utilised.                                      *)
(***************************************************************************)
C2_BaseWithinLen ==
    lifo => base <= Len(slots)

\* A reservation was given up inside a nested running activation.
C2_Witness ==
    /\ lifo
    /\ slast.op = "release_after"
    /\ base > 0
    /\ base <= Len(slots)

(***************************************************************************)
(* C3: a complete callee activation restores the caller's activation: if   *)
(* the caller's state has base b and length L, then after reserve(n),      *)
(* utilise, any set_slot(id, v) with id < n and release of the base that   *)
(* utilise returned, the stack has base b and length L again and every     *)
(* cell below L holds the value it held before the reserve.                *)
(***************************************************************************)
C3_ReleaseRestoresCaller ==
    [][(lifo /\ lifo' /\ calls # <<>> /\ Len(calls') < Len(calls)
            /\ slast'.op = "release")
        => (base' = Top.savedBase /\ slots' = Top.savedSlots)]_vars

\* A callee that wrote its locals was released into a nested caller that holds values.
C3_Witness ==
    /\ lifo
    /\ slast.op = "release"
    /\ slast.wrote
    /\ base > 0
    /\ \E i \in 1..Len(slots) : i > base /\ slots[i] # None

(***************************************************************************)
(* C4: for any sequence of writes, whether the BcInstrsWriter is dropped   *)
(* without finish or finish is called and the BcInstrs is dropped later,   *)
(* the per-opcode drop routine runs exactly once on every written          *)
(* instruction, the appended EndOfBc included: never zero times, never     *)
(* twice; dropping a default-constructed BcInstrs runs no drop routine on  *)
(* the static buffer.                                                      *)
(***************************************************************************)
InstrStarts(instrs) ==
    LET w == walk(instrs, 0) IN {w[i] : i \in 1..Len(w)}

C4_DropExactlyOnce ==
    /\ \A a \in DOMAIN drops : drops[a] <= 1
    /\ wphase = "dropped" => \A a \in DOMAIN drops : drops[a] = 1
    /\ bc.kind = "Left" => DOMAIN drops = InstrStarts(bc.instrs)
    /\ (wphase = "dropped" /\ bc.kind = "none") => DOMAIN drops = InstrStarts(winstrs)
    /\ staticDrops = 0

\* A finished buffer of several instructions was dropped.
C4_Witness ==
    /\ wphase = "dropped"
    /\ bc.kind = "Left"
    /\ Cardinality(DOMAIN drops) >= 3
    /\ \A a \in DOMAIN drops : drops[a] = 1

C6_Original ==
    bc.kind = "Left" => ~HasForward(bc.instrs)

(***************************************************************************)
(* C6 (amended): finish makes no check of the jump targets: it succeeds    *)
(* whether or not a forward jump is unpatched, and the BcInstrs it yields  *)
(* holds the writer's words unchanged before EndOfBc, so a target that     *)
(* holds FORWARD at finish still holds it in the BcInstrs.                 *)
(***************************************************************************)
C6_FinishKeepsTargets ==
    [][(wphase = "writing" /\ blast'.op = "finish") =>
        /\ blast'.ok
        /\ bc'.kind = "Left"
        /\ SubSeq(bc'.instrs, 1, Len(winstrs)) = winstrs
        /\ HasForward(bc'.instrs) = HasForward(winstrs)]_vars

\* A finished buffer with a jump that was never patched.
C6_Witness ==
    /\ wphase = "finished"
    /\ blast.op = "finish"
    /\ bc.kind = "Left"
    /\ HasForward(bc.instrs)

(***************************************************************************)
(* C7: a forward jump written with the sentinel, registered with           *)
(* addr_to_patch and patched with patch_addr after any number of writes    *)
(* holds ip_at_patch_time - instr_start in its target field: a positive    *)
(* byte delta that is a multiple of the word alignment.                    *)
(***************************************************************************)
C7_PatchRoundTrip ==
    [][(blast'.op = "patch_addr" /\ blast'.ok /\ wphase = "writing") =>
        LET target == WordAt(winstrs', blast'.ret).v IN
        /\ WordAt(winstrs, blast'.ret).v = FORWARD
        /\ WordAt(winstrs, blast'.a).op = "Br"
        /\ target = ip(winstrs) - blast'.a
        /\ target > 0
        /\ target % BC_INSTR_ALIGN = 0]_vars

\* A jump was patched after writes that followed it.
C7_Witness ==
    /\ blast.op = "patch_addr"
    /\ blast.ok
    /\ WordAt(winstrs, blast.ret).v = ip(winstrs) - blast.a
    /\ WordAt(winstrs, blast.ret).v > size_of_repr("Br")

(***************************************************************************)
(* C8: each write returns as instr_start the ip() before the call and      *)
(* advances ip() by exactly the size of the instruction's representation,  *)
(* a positive whole number of words; so ip() strictly increases over       *)
(* writes and is a multiple of the word alignment in every writer state.   *)
(***************************************************************************)
C8_WriterMonotone ==
    [][(blast'.op = "write" /\ blast'.ok /\ wphase = "writing") =>
        /\ blast'.ret = ip(winstrs)
        /\ ip(winstrs') = ip(winstrs) + size_of_repr(blast'.i)
        /\ size_of_repr(blast'.i) > 0
        /\ size_of_repr(blast'.i) % WordSize = 0
        /\ ip(winstrs') > ip(winstrs)
        /\ ip(winstrs) % BC_INSTR_ALIGN = 0
        /\ ip(winstrs') % BC_INSTR_ALIGN = 0]_vars

\* A two-word instruction was written after another instruction.
C8_Witness ==
    /\ wphase = "writing"
    /\ blast.op = "write"
    /\ blast.ok
    /\ blast.i = "Const"
    /\ blast.ret > 0
    /\ ip(winstrs) = blast.ret + 2 * WordSize

(***************************************************************************)
(* C9: optimize_on_freeze is idempotent on call IR: for a fixed frozen     *)
(* module, applying it to its own result yields the same IR as applying    *)
(* it once.                                                                *)
(***************************************************************************)
C9_FreezeIdempotent ==
    fpc = "twice" => twice = once

\* A Call whose callee and arguments were rewritten by the first pass.
C9_Witness ==
    /\ fpc = "twice"
    /\ ir.t = "Call"
    /\ once.t = "Frozen"
    /\ once.args # ir.args
    /\ twice = once

(***************************************************************************)
(* C10: optimize_on_freeze rewrites Call(fun, args) to                     *)
(* Frozen(None, v, optimised args) exactly when the optimised fun is a     *)
(* literal frozen value v; otherwise the node stays Call with the          *)
(* optimised fun and the optimised args.                                   *)
(***************************************************************************)
C10_CallToFrozen ==
    (fpc # "in" /\ ir.t = "Call") =>
        LET fun == ExprOptimize(ir.fun[1]) IN
        /\ once.t \in {"Call", "Frozen"}
        /\ once.t = "Frozen" <=> fun.t = "Value"
        /\ once.t = "Frozen" => (once.this = NoThis /\ once.v = fun.v /\ once.fun = <<>>)
        /\ once.t = "Call" => once.fun = <<fun>>
        /\ once.args = ArgsOptimize(ir.args)

\* A Call on a module slot that the frozen module resolves.
C10_Witness ==
    /\ fpc = "once"
    /\ ir.t = "Call"
    /\ ir.fun[1].t = "Module"
    /\ once.t = "Frozen"
    /\ once.v = module_get_slot(ir.fun[1].v)
    /\ Len(once.args.pos_named) = MaxPos

is_named(x) == x.k = "Named"

is_star(x) == x.k \in {"Args", "KwArgs"}

\* The non-method call was compiled.
CompiledFun == cpc = "compiled" /\ cst.op = "call" /\ ~cst.left.dot

\* The method call was compiled.
CompiledMethod == cpc = "compiled" /\ cst.op = "call" /\ cst.left.dot

OnePositional(xs) == Len(xs) = 1 /\ xs[1].k = "Positional"

(***************************************************************************)
(* C11: for a non-method call, expr_call chooses its output by this        *)
(* ordered table: callee not a constant frozen value -> Call(callee,       *)
(* args); else callee is builtin type with exactly one positional          *)
(* argument -> the specialised type(x); else callee is builtin len with    *)
(* exactly one positional argument -> Len(arg); else exactly one           *)
(* positional argument and callee a FrozenDef with returns_type_is = T ->  *)
(* TypeIs(arg, T, Id); else Frozen(None, callee, args).  No                *)
(* specialisation fires for a named, *args or **kwargs argument, nor for   *)
(* zero or several arguments.                                              *)
(***************************************************************************)
C11_CallTable ==
    CompiledFun =>
        LET callee == cst.left.e
            xs == cst.args
            one == OnePositional(xs)
            generic == CallCompiled_Frozen(NoThis, callee.v, Compiler_args(xs), cst.span) IN
        /\ callee.k = "Local" =>
                /\ cout.t = "Call"
                /\ cout.call[1] = CallCompiled_Call(Local(callee.v), Compiler_args(xs), cst.span)
        /\ (callee.k = "Const" /\ one) =>
                CASE callee.v = fn_type -> cout.t = "Type" /\ cout.x = <<expr(xs[1].e)>>
                  [] callee.v = fn_len -> cout.t = "Len" /\ cout.x = <<expr(xs[1].e)>>
                  [] callee.v = def_type_is ->
                        cout.t = "TypeIs" /\ cout.x = <<expr(xs[1].e)>> /\ cout.ty = "int"
                  [] OTHER -> cout.t = "Call" /\ cout.call[1] = generic
        /\ (callee.k = "Const" /\ ~one) => (cout.t = "Call" /\ cout.call[1] = generic)
        /\ cout.t \in {"Type", "Len", "TypeIs"} => one

\* A call of a function known to be a type test, with one positional argument.
C11_Witness ==
    /\ CompiledFun
    /\ cst.left.e = CstConst(def_type_is)
    /\ OnePositional(cst.args)
    /\ cout.t = "TypeIs"

(***************************************************************************)
(* C12: expr_call_method emits FormatOne(prefix, arg, suffix) if and only  *)
(* if the receiver compiles to a string literal, the method name is        *)
(* exactly "format", the argument list is exactly one positional argument  *)
(* and parse_format_one accepts the literal as <prefix>{}<suffix>; then    *)
(* prefix and suffix are the parsed parts, arg is the compiled argument    *)
(* and no generic call node is emitted.                                    *)
(***************************************************************************)
C12_FormatOneIff ==
    CompiledMethod =>
        LET lit == cst.left.e
            fires == /\ lit.k = "Str"
                     /\ cst.left.s = "format"
                     /\ OnePositional(cst.args)
                     /\ \E i \in 0..Len(lit.s) :
                            /\ i + 2 <= Len(lit.s)
                            /\ SubSeq(lit.s, i + 1, i + 2) = <<"{", "}">>
                            /\ NoBrace(SubSeq(lit.s, 1, i))
                            /\ NoBrace(SubSeq(lit.s, i + 3, Len(lit.s))) IN
        /\ (cout.t = "FormatOne") <=> fires
        /\ cout.t = "FormatOne" =>
                /\ as_str(cout.before) \o <<"{", "}">> \o as_str(cout.after) = lit.s
                /\ cout.x = <<expr(cst.args[1].e)>>
                /\ cout.call = <<>>
        /\ cout.t \in {"FormatOne", "Call"}

\* The peephole fired on a literal with text before the placeholder.
C12_Witness ==
    /\ CompiledMethod
    /\ cout.t = "FormatOne"
    /\ as_str(cout.before) # <<>>

(***************************************************************************)
(* C13: peephole specialisation preserves semantics: for every argument    *)
(* value x the specialised form of "<prefix>{}<suffix>".format(x) gives    *)
(* the result of the unspecialised format call, and the specialised form   *)
(* of "<prefix>%s<suffix>" % x gives the result of the unspecialised %     *)
(* operator; the two are never exchanged, so for x = (1,) format gives     *)
(* prefix ++ "(1,)" ++ suffix while % gives prefix ++ "1" ++ suffix.       *)
(***************************************************************************)
C13_PeepholeSameResult ==
    cpc = "ran" =>
        /\ crun.spec = crun.gen
        /\ cout.t = "FormatOne" => (cst.op = "call" /\ cst.left.s = "format")
        /\ cout.t = "PercentSOne" => cst.op = "percent"
        /\ crun.x = RTuple(<<1>>) =>
                /\ crun.spec.ok
                /\ crun.spec.s =
                        as_str(cout.before)
                            \o (IF cout.t = "FormatOne" THEN <<"(", "1", ",", ")">> ELSE <<"1">>)
                            \o as_str(cout.after)

\* "s{}".format((1,)) was run and gave "s(1,)".
C13_Witness ==
    /\ cpc = "ran"
    /\ cout.t = "FormatOne"
    /\ crun.x = RTuple(<<1>>)
    /\ crun.spec = Ok(<<"s", "(", "1", ",", ")">>)

(***************************************************************************)
(* C14: for every argument list given to the compiler's args function the  *)
(* resulting ArgsCompiledValue has pos_named equal to the positional       *)
(* values followed by the values of the named arguments in source order,   *)
(* len(names) <= len(pos_named), the k-th entry of names is the name of    *)
(* the k-th element of the last len(names) elements of pos_named, and *e   *)
(* and **e arguments add nothing to pos_named or names.                    *)
(***************************************************************************)
C14_ArgsLayout ==
    (cpc = "compiled" /\ cout.t = "Call") =>
        LET a == cout.call[1].args
            pos == SelectSeq(cst.args, is_positional)
            named == SelectSeq(cst.args, is_named) IN
        /\ a.pos_named = [i \in 1..Len(pos) |-> expr(pos[i].e)]
                            \o [i \in 1..Len(named) |-> expr(named[i].e)]
        /\ Len(a.names) <= Len(a.pos_named)
        /\ a.names = [k \in 1..Len(named) |-> named[k].name]
        /\ Len(a.pos_named) + Len(SelectSeq(cst.args, is_star)) = Len(cst.args)

\* A positional and a named argument were compiled.
C14_Witness ==
    /\ cpc = "compiled"
    /\ cout.t = "Call"
    /\ Len(cout.call[1].args.names) = 1
    /\ Len(cout.call[1].args.pos_named) = 2

\* The projection as a map over the value's structure: every dict entry
\* gives one entry of the host mapping.
RECURSIVE Shape(_)
Shape(v) ==
    CASE v.ty = "string" -> HStr(v.n)
      [] v.ty = "bool" -> HBool(v.n)
      [] v.ty = "int" -> HInt(v.n)
      [] v.ty = "float" -> HFloat(v.n)
      [] v.ty = "list" -> HList([i \in 1..Len(v.items) |-> Shape(v.items[i])])
      [] v.ty = "tuple" -> HTuple([i \in 1..Len(v.items) |-> Shape(v.items[i])])
      [] v.ty = "dict" -> HDict([i \in 1..Len(v.items) |-> Shape(v.items[i])])
      [] OTHER -> HNull

\* The same, with the entries of a dict whose keys are equal in the host
\* sharing one entry: at the place of the first, with the value of the last.
RECURSIVE ShapeMerged(_)
ShapeMerged(v) ==
    CASE v.ty = "string" -> HStr(v.n)
      [] v.ty = "bool" -> HBool(v.n)
      [] v.ty = "int" -> HInt(v.n)
      [] v.ty = "float" -> HFloat(v.n)
      [] v.ty = "list" -> HList([i \in 1..Len(v.items) |-> ShapeMerged(v.items[i])])
      [] v.ty = "tuple" -> HTuple([i \in 1..Len(v.items) |-> ShapeMerged(v.items[i])])
      [] v.ty = "dict" ->
            LET n == Len(v.items) \div 2
                key(i) == ShapeMerged(v.items[2 * i - 1])
                same(i, j) == HostEq(key(i), key(j))
                first(i) == \A j \in 1..(i - 1) : ~same(j, i)
                last(i) == CHOOSE j \in i..n :
                                same(i, j) /\ \A m \in (j + 1)..n : ~same(i, m)
                firsts == {i \in 1..n : first(i)}
                nth(m) == CHOOSE i \in firsts : Cardinality({j \in firsts : j < i}) = m - 1
                flat == [p \in 1..(2 * Cardinality(firsts)) |->
                            IF p % 2 = 1
                            THEN key(nth((p + 1) \div 2))
                            ELSE ShapeMerged(v.items[2 * last(nth(p \div 2))])] IN
            HDict(flat)
      [] OTHER -> HNull

\* A host error is raised somewhere in the value: the host refuses a key.
RECURSIVE Refused(_, _)
Refused(v, reject) ==
    CASE v.ty \in {"list", "tuple"} -> \E i \in 1..Len(v.items) : Refused(v.items[i], reject)
      [] v.ty = "dict" ->
            \E i \in 1..Len(v.items) :
                \/ Refused(v.items[i], reject)
                \/ i % 2 = 1 /\ Shape(v.items[i]) \in reject
      [] OTHER -> FALSE

Projected == ppc = "done" /\ Len(pylog) = 3

(***************************************************************************)
(* C15 (as stated): starlark_type_to_pyo3_type is a total structural       *)
(* projection selected only by the type tag: string, bool, int and float   *)
(* give the matching host scalar; list and tuple give a host list/tuple of *)
(* the same length whose i-th element is the projection of the i-th        *)
(* element; dict gives a host mapping holding the projected key/value pair *)
(* of every source entry in source iteration order; NoneType and every     *)
(* other tag give host null, at any nesting depth.                         *)
(***************************************************************************)
C15_Original ==
    (Projected /\ pyres.ok) => pyres.val = Shape(pysrc.value)

(***************************************************************************)
(* C15 (amended): as stated, except that a dict gives the host mapping     *)
(* built by inserting the projected pairs in source iteration order:       *)
(* source entries whose projected keys are equal in the host (1 and True)  *)
(* share one host entry, at the place of the first of them and with the    *)
(* projected value of the last.                                            *)
(***************************************************************************)
C15_StructuralProjection ==
    (Projected /\ pyres.ok) => pyres.val = ShapeMerged(pysrc.value)

\* A dict with the keys 1 and True was projected to a mapping of one entry.
C15_Witness ==
    /\ Projected
    /\ pyres.ok
    /\ pysrc.value.ty = "dict"
    /\ Len(pysrc.value.items) = 4
    /\ pyres.val.h = "dict"
    /\ Len(pyres.val.items) = 2

(***************************************************************************)
(* C16: eval(source) proceeds strictly in the order parse -> evaluate ->   *)
(* project and each failure maps to one error kind: a parse failure gives  *)
(* SyntaxError and evaluation is never started; an evaluation failure      *)
(* after a successful parse gives RuntimeError and projection is never     *)
(* started; a value is projected only when both succeeded.  SyntaxError is *)
(* never reported for an evaluation failure nor RuntimeError for a parse   *)
(* failure.                                                                *)
(***************************************************************************)
C16_EvalStages ==
    /\ \E n \in 0..3 : pylog = SubSeq(<<"parse", "evaluate", "project">>, 1, n)
    /\ Len(pylog) >= 2 => pysrc.parse_ok
    /\ Len(pylog) = 3 => pysrc.eval_ok
    /\ ppc = "done" =>
            /\ ~pysrc.parse_ok => (pyres = PyErr("SyntaxError") /\ pylog = <<"parse">>)
            /\ (pysrc.parse_ok /\ ~pysrc.eval_ok) =>
                    (pyres = PyErr("RuntimeError") /\ pylog = <<"parse", "evaluate">>)
            /\ (pysrc.parse_ok /\ pysrc.eval_ok) => Len(pylog) = 3
            /\ pyres.err = "SyntaxError" => ~pysrc.parse_ok
            /\ pyres.err = "RuntimeError" => (pysrc.parse_ok /\ ~pysrc.eval_ok)

\* An evaluation failure was returned as a RuntimeError.
C16_Witness ==
    /\ ppc = "done"
    /\ pysrc.parse_ok
    /\ ~pysrc.eval_ok
    /\ pyres = PyErr("RuntimeError")

(***************************************************************************)
(* C17: recursive projection propagates host-side errors: if projecting    *)
(* any element of a list or tuple, any key or value of a dict, or any      *)
(* insertion into the host mapping fails, at any nesting depth, the whole  *)
(* projection (and eval) returns that error and never a partially built    *)
(* host value or null in its place.                                        *)
(***************************************************************************)
C17_HostErrorPropagates ==
    (Projected /\ Refused(pysrc.value, pysrc.reject)) => pyres = PyErr("HostError")

\* The insertion failed in a dict nested in a list or tuple.
C17_Witness ==
    /\ Projected
    /\ pysrc.value.ty \in {"list", "tuple"}
    /\ Refused(pysrc.value, pysrc.reject)
    /\ pyres = PyErr("HostError")

(***************************************************************************)
(* C18.  Non-LIFO misuse of the slot stack is caught by the bounds checks: *)
(* once reservations were utilised or released out of order, every         *)
(* get_slot, set_slot or get_slots_at(base)[i] that succeeds touches a     *)
(* cell of the activation it was made for (the executing activation for    *)
(* get_slot and set_slot, the reservation named for get_slots_at); an      *)
(* access that leaves that activation's cells fails.  As stated.           *)
(***************************************************************************)
C18_Original ==
    [][ ~lifo' =>
          /\ \A id \in 0..MaxReserve :
                (MGetSlot(id) /\ slast'.ok) => InWindow(calls[CurIdx], base + id)
          /\ \A id \in 0..MaxReserve, v \in Values :
                (MSetSlot(id, v) /\ slast'.ok) => InWindow(calls[CurIdx], base + id)
          /\ \A k \in 1..MaxDepth, i \in 0..MaxReserve :
                (MSlotsAt(k, i) /\ slast'.ok) => InWindow(calls[k], calls[k].resv + i)
      ]_vars

\* The byte offset of the k-th instruction: the representation sizes of
\* the k - 1 instructions before it, added up.
RECURSIVE SizesBefore(_, _)
SizesBefore(ops, k) ==
    IF k <= 1 THEN 0 ELSE SizesBefore(ops, k - 1) + size_of_repr(ops[k - 1])

RECURSIVE Concat(_)
Concat(texts) ==
    IF texts = <<>> THEN "" ELSE texts[1] \o Concat(SubSeq(texts, 2, Len(texts)))

(***************************************************************************)
(* C19: Display of a BcInstrs renders, for each instruction before EndOfBc *)
(* in buffer order, "<addr>: <OpName><args>; " with addr the sum of the    *)
(* representation sizes of the instructions before it, then                *)
(* "<end-addr>: END" with end-addr the byte offset of EndOfBc; the text of *)
(* EndOfBc is not printed, and a default-constructed buffer renders        *)
(* exactly "0: END".                                                       *)
(***************************************************************************)
C19_Display ==
    bc.kind # "none" =>
        LET ops == opcodes(bc.instrs)
            n == Len(ops) - 1
            addr(k) == SizesBefore(ops, k)
            text(k) == ToString(addr(k)) \o ": " \o ops[k]
                            \o fmt_append_arg(bc.instrs, addr(k), ops[k]) \o "; " IN
        /\ ops[n + 1] = "EndOfBc"
        /\ BcInstrs_fmt(bc) =
                [ok |-> TRUE,
                 s |-> Concat([k \in 1..n |-> text(k)]) \o ToString(addr(n + 1)) \o ": END"]
        /\ bc = BcInstrs_default => BcInstrs_fmt(bc).s = "0: END"

\* The buffer of test::display: write::<InstrConst>(true), write::<InstrReturn>(()), finish.
C19_Witness ==
    /\ bc.kind = "Left"
    /\ BcInstrs_fmt(bc) = [ok |-> TRUE, s |-> "0: Const True; 16: Return; 24: END"]

\* The payload (BcAddr, span table) of the EndOfBc that ends the buffer.
EndOfBcPayload(instrs) ==
    LET end == instrs_len_bytes(instrs) - size_of_repr("EndOfBc") IN
    <<WordAt(instrs, end + ArgOffset).v, WordAt(instrs, end + ArgOffset + WordSize).v>>

(***************************************************************************)
(* C20 (as stated): finish(span_table) appends an EndOfBc whose payload is *)
(* (buffer_start, span_table): the address component is the start address *)
(* of the buffer (0) for every sequence of preceding writes, and the span  *)
(* component is the span table passed to finish.                           *)
(***************************************************************************)
C20_Original ==
    (blast.op = "finish" /\ blast.ok) => EndOfBcPayload(bc.instrs) = <<0, blast.a>>

(***************************************************************************)
(* C20 (amended): finish(span_table) appends an EndOfBc whose payload is   *)
(* (ip(), span_table) with ip() taken before the append: the address       *)
(* component is the byte offset of the EndOfBc instruction itself, which   *)
(* is the start of the buffer only when nothing was written before finish  *)
(* (as in the static empty buffer, whose payload is (BcAddr(0), empty));   *)
(* the span component is the span table passed to finish.                  *)
(***************************************************************************)
C20_FinishPayload ==
    /\ (blast.op = "finish" /\ blast.ok) =>
            /\ WordAt(bc.instrs, blast.ret).op = "EndOfBc"
            /\ blast.ret = instrs_len_bytes(bc.instrs) - size_of_repr("EndOfBc")
            /\ EndOfBcPayload(bc.instrs) = <<blast.ret, blast.a>>
    /\ bc.kind = "Right" => EndOfBcPayload(bc.instrs) = <<0, 0>>

\* finish(spans) with a span table, after two instructions were written.
C20_Witness ==
    /\ blast.op = "finish"
    /\ blast.ok
    /\ blast.a = MaxSpanTable
    /\ blast.ret = 3 * WordSize
    /\ EndOfBcPayload(bc.instrs) = <<3 * WordSize, MaxSpanTable>>

C22_MethodCall ==
    (CompiledMethod /\ cout.t # "FormatOne") =>
        LET recv == cst.left.e
            s == cst.left.s
            constant == recv.k \in {"Str", "Const"}
            val == IF recv.k = "Str" THEN alloc_string_value(recv.s) ELSE recv.v
            lookup == compile_time_getattr(val, s)
            found == constant /\ lookup # <<>> IN
        /\ cout.t = "Call"
        /\ (cout.call[1].t = "Frozen") <=> found
        /\ found =>
                /\ cout.call[1].v = lookup[1].fun
                /\ (cout.call[1].this = val) <=> (lookup[1].at = "Method")
                /\ (cout.call[1].this = NoThis) <=> (lookup[1].at = "Field")
                /\ cout.call[1].args = Compiler_args(cst.args)
                /\ cout.call[1].span = cst.span
        /\ ~found =>
                cout.call[1] = CallCompiled_Method(expr(recv), s, Compiler_args(cst.args), cst.span)

\* A field that holds a type-test function, called with one positional
\* argument: Frozen(None, fun, args) and no TypeIs.
C22_Witness ==
    /\ CompiledMethod
    /\ cst.left.e = CstConst(struct_value)
    /\ cst.left.s = "g"
    /\ OnePositional(cst.args)
    /\ cout.t = "Call"
    /\ cout.call[1].t = "Frozen"
    /\ cout.call[1].this = NoThis
    /\ cout.call[1].v = def_type_is

\* An expression the optimiser has nothing to rewrite in.
IsFixed(e) == e.t \in {"Value", "Local"}

(***************************************************************************)
(* C23: optimize_on_freeze preserves what it is not meant to rewrite: a    *)
(* Frozen node stays Frozen with the same receiver and callee, a Method    *)
(* node stays Method with the same method name (even when its receiver     *)
(* optimises to a literal value), the span of the node is unchanged, and   *)
(* in every variant the optimised args have the identical names list, the  *)
(* same number and order of pos_named entries, and args / kwargs present   *)
(* exactly when they were present before.                                  *)
(***************************************************************************)
C23_FreezePreserves ==
    fpc \in {"once", "twice"} =>
        /\ ir.t = "Frozen" => (once.t = "Frozen" /\ once.this = ir.this /\ once.v = ir.v)
        /\ ir.t = "Method" => (once.t = "Method" /\ once.v = ir.v /\ Len(once.fun) = 1)
        /\ once.span = ir.span
        /\ once.args.names = ir.args.names
        /\ Len(once.args.pos_named) = Len(ir.args.pos_named)
        /\ \A i \in 1..Len(ir.args.pos_named) :
                /\ IsFixed(ir.args.pos_named[i]) => once.args.pos_named[i] = ir.args.pos_named[i]
                /\ ir.args.pos_named[i].t = "Module" =>
                        once.args.pos_named[i] \in
                            {ir.args.pos_named[i], Value(module_get_slot(ir.args.pos_named[i].v))}
        /\ Len(once.args.args) = Len(ir.args.args)
        /\ Len(once.args.kwargs) = Len(ir.args.kwargs)

\* A Method whose receiver became a literal value, with a named argument
\* and *args: still a Method of the same name.
C23_Witness ==
    /\ fpc = "once"
    /\ ir.t = "Method"
    /\ ir.fun[1].t = "Module"
    /\ once.t = "Method"
    /\ once.fun[1].t = "Value"
    /\ Len(ir.args.names) = 1
    /\ Len(ir.args.pos_named) = MaxPos
    /\ Len(once.args.args) = 1

(***************************************************************************)
(* C24: each forward jump can be patched at most once: patch_addr on a     *)
(* PatchAddr whose target field no longer holds the forward sentinel       *)
(* (because it was already patched) fails its assertion and does not       *)
(* overwrite the field, and addr_to_patch fails unless the field of the    *)
(* handle holds the forward sentinel at an offset strictly below the       *)
(* current ip().  A patch_addr that succeeds leaves no sentinel behind.    *)
(***************************************************************************)
C24_PatchOnce ==
    [][ /\ blast'.op = "patch_addr" =>
              IF WordAt(winstrs, blast'.ret).v # FORWARD
              THEN /\ ~blast'.ok
                   /\ wphase' = "panicked"
                   /\ winstrs' = winstrs
              ELSE /\ blast'.ok
                   /\ WordAt(winstrs', blast'.ret).v # FORWARD
        /\ blast'.op = "addr_to_patch" =>
              (blast'.ok <=> (/\ blast'.ret < ip(winstrs)
                              /\ WordAt(winstrs, blast'.ret).v = FORWARD))
      ]_vars

\* The second PatchAddr made for one jump was given to patch_addr: the
\* assertion failed and the field keeps the offset the first patch wrote.
C24_Witness ==
    /\ blast.op = "patch_addr"
    /\ ~blast.ok
    /\ wphase = "panicked"
    /\ WordAt(winstrs, blast.ret).v \in 1..(MaxWords * WordSize)

(***************************************************************************)
(* C25: the writer is append-only: write leaves every word at an offset    *)
(* below the pre-call ip() unchanged, patch_addr changes only the one      *)
(* target field named by its PatchAddr and leaves ip() and all other words *)
(* unchanged, and finish changes nothing below the pre-call ip(); once     *)
(* finish has run no further write or patch_addr is applied to the buffer. *)
(***************************************************************************)
C25_AppendOnly ==
    [][ /\ (blast'.op = "write" /\ blast'.ok) =>
              /\ Len(winstrs') > Len(winstrs)
              /\ SubSeq(winstrs', 1, Len(winstrs)) = winstrs
        /\ (blast'.op = "patch_addr" /\ blast'.ok) =>
              LET target == (blast'.ret \div WordSize) + 1 IN
              /\ ip(winstrs') = ip(winstrs)
              /\ \A i \in 1..Len(winstrs) : i # target => winstrs'[i] = winstrs[i]
              /\ winstrs'[target].k = winstrs[target].k
              /\ winstrs'[target].v # winstrs[target].v
        /\ (blast'.op = "finish" /\ blast'.ok) =>
              /\ SubSeq(bc'.instrs, 1, Len(winstrs)) = winstrs
              /\ Len(bc'.instrs) > Len(winstrs)
        /\ wphase = "finished" =>
              /\ bc' = bc
              /\ blast'.op \notin {"write", "patch_addr", "addr_to_patch", "finish"}
      ]_vars

\* A buffer that was written, patched and finished: the patched jump is in
\* the BcInstrs, before EndOfBc.
C25_Witness ==
    /\ blast.op = "finish"
    /\ blast.ok
    /\ \E i \in 1..(Len(bc.instrs) - 1) :
            /\ bc.instrs[i].op = "Br"
            /\ bc.instrs[i + 1].v \in (2 * WordSize)..(MaxWords * WordSize)
    /\ Len(bc.instrs) = MaxWords + (size_of_repr("EndOfBc") \div WordSize)

(***************************************************************************)
(* C26: reserve(n) returns the pre-call slots.len(), grows the vector by   *)
(* exactly n cells, leaves base and every cell that existed unchanged, and *)
(* every cell of the new window reads as unset through get_slot and        *)
(* get_slots_at until it is set, also when the same indices held values of *)
(* an activation that was released earlier.                                *)
(***************************************************************************)
C26_ReserveFresh ==
    [][ /\ \A n \in 0..MaxReserve :
              (PReserve(n) \/ FReserve(n)) =>
                  LET after == [slots |-> slots', base |-> base']
                      res == slast'.ret IN
                  /\ res = Len(slots)
                  /\ Len(slots') = Len(slots) + n
                  /\ base' = base
                  /\ SubSeq(slots', 1, Len(slots)) = slots
                  /\ get_slots_at(after, res) = [ok |-> TRUE, ret |-> [i \in 1..n |-> None]]
                  /\ \A id \in 0..(n - 1) :
                        get_slot(utilise(after, res), id) = [ok |-> TRUE, ret |-> None]
        /\ lifo' =>
              \A k \in 1..Len(calls') :
                  ~calls'[k].wrote =>
                      \A i \in 1..calls'[k].n : slots'[calls'[k].resv + i] = None
      ]_vars

\* reserve returned the indices of an activation that was released after it
\* had written them, below a caller that holds a value: the window is unset.
C26_Witness ==
    /\ lifo
    /\ slast.op = "reserve"
    /\ slast.wrote
    /\ Len(slots) > slast.ret
    /\ \A i \in (slast.ret + 1)..Len(slots) : slots[i] = None
    /\ \E i \in 1..slast.ret : slots[i] # None


====
